---- MODULE Spec2Model ----
(***************************************************************************)
(* State-machine model of the WAPI M0804C firmware stack:                  *)
(*   - the AT command handler        (src/handler/src/AT_handler.c)        *)
(*   - the M0804C device handler     (src/handler/src/WAPI_M0804C.c)       *)
(*   - the parse thread of the UART protocol layer                         *)
(*                                    (src/uart_proto/src/uart_proto.c)    *)
(* Semaphores are the binary semaphores of the CMSIS adapter               *)
(* (src/APP/wapi_commu.c): a count in 0..1, give saturates at 1, take with *)
(* timeout 0 fails on 0, take with OS_DELAY_MAX blocks on 0.               *)
(* Queues are depth-1 message queues: a sequence of length <= 1, put with  *)
(* timeout 0 fails when full.                                              *)
(* Fields named txn and the variables track, ntxn, open are history        *)
(* variables: they record what happened and never influence the program.   *)
(***************************************************************************)
EXTENDS Integers, Sequences, FiniteSets, TLC

\* ---------------------------------------------------------------- bounds
\* number of AT transactions the senders of SpecAT may start
MaxTxn == 2
\* number of response frames the module may emit per received command
MaxResp == 2
\* number of failed process runs outstanding in the fail counters of Spec
MaxFail == 4
MaxFailDev == 1
MaxSend == 1
\* SpecRing: largest receive buffer, bytes the module sends, notifications
MaxBufSize == 3
MaxBytes == 7
MaxNotify == 4
\* SpecFuncode: subscriber nodes that can be allocated at a time, dispatches
MaxNodes == 3
\* SpecUpload: invocations of the file operation by table_process
MaxRuns == 2
\* bytes of a configuration record the application changes in one behaviour
MaxEdits == 2
\* SpecStep: ticks by which time advances in one step
TickStep == 500
\* SpecCritical: bytes received, notifications
MaxCalls == 2
\* SpecFrame: longest payload handed to the send path
MaxPayloadLen == 60

\* ------------------------------------------------------ program constants
MAX_RECV_CNT_OF_CMD_SEND == 1
MAX_RECV_CNT_OF_TRANS_SEND == 2
MAX_PARSE_NUM_ONCE_TRIGGER == 1
AT_ERR_REPEAT_CNT == 4
WAPI_PROCESS_RETRY_MAX == 2
WAPI_PROCESS_FAIL_MAX == 3
U8 == 256
U16 == 65536
NUM_NOTIFY_ISR_CB_CALL == 1
SEND_BUF_SIZE == 128
CUR_SOCKET == 1
SEG_LEN == 64
\* sizeof(wapi_info_t) and sizeof(uint16_t), the width of its digest field
SIZEOF_WAPI_INFO == 72
SIZEOF_DIGEST == 2

\* ------------------------------------------------------------- frames
\* A response frame is abstracted to the set of literal markers it holds;
\* find_substring_in_buffer(buf, len, m) >= 0 is  m \in frame.
SOCK_ERR == "[ERR] Socket not in use!"
FrameOk == {"+OK"}
FrameJunk == {}
FrameSockErr == {SOCK_ERR}

find_substring_in_buffer(frame, string) == string \in frame

\* ----------------------------------------------------- AT command table
\* m0804c_at_table: the send template, character by character, the
\* receive_count and the parse callbacks of every entry.
m0804c_at_table ==
  [ TEST |->
      [send |-> <<"A", "T", "\r", "\n">>,
       receive_count |-> 1, pf_at_recv_parse |-> <<"at_recv_parse_ok">>],
    GET_VERSION |->
      [send |-> <<"A", "T", "I", "\r", "\n">>,
       receive_count |-> 1, pf_at_recv_parse |-> <<"at_recv_parse_ok">>],
    SET_ECHO |->
      [send |-> <<"A", "T", "+", "E", "C", "H", "O", "=", "%", "d", "\r", "\n">>,
       receive_count |-> 1, pf_at_recv_parse |-> <<"at_recv_parse_ok">>],
    SET_BAND |->
      [send |-> <<"A", "T", "+", "B", "A", "N", "D", "=", "%", "d", "\r", "\n">>,
       receive_count |-> 1, pf_at_recv_parse |-> <<"at_recv_parse_ok">>],
    AT_REBOOT |->
      [send |-> <<"A", "T", "+", "R", "E", "B", "O", "O", "T", "\r", "\n">>,
       receive_count |-> 1, pf_at_recv_parse |-> <<"at_recv_parse_reboot">>],
    SET_TX_PWR |->
      [send |-> <<"A", "T", "+", "T", "X", "P", "W", "R", "=", "0", ",", "2", "2", "\r", "\n">>,
       receive_count |-> 1, pf_at_recv_parse |-> <<"at_recv_parse_ok">>],
    SET_LOW_PWR |->
      [send |-> <<"A", "T", "+", "S", "E", "T", "D", "P", "=", "%", "d", "\r", "\n">>,
       receive_count |-> 1, pf_at_recv_parse |-> <<"at_recv_parse_ok">>],
    DISCONN_TRANS |->
      [send |-> <<"A", "T", "+", "W", "S", "D", "I", "S", "C", "N", "C", "T", "\r", "\n">>,
       receive_count |-> 1, pf_at_recv_parse |-> <<"at_recv_parse_ok">>],
    SET_IP |->
      [send |-> <<"A", "T", "+", "W", "F", "I", "X", "I", "P", "=", "%", "d", ",", "%", "d", ".", "%", "d", ".", "%", "d", ".", "%", "d", ",", "%", "d", ".", "%", "d", ".", "%", "d", ".", "%", "d", ",", "%", "d", ".", "%", "d", ".", "%", "d", ".", "%", "d", "\r", "\n">>,
       receive_count |-> 1, pf_at_recv_parse |-> <<"at_recv_parse_ok">>],
    CONN_WAPI_BY_CERT |->
      [send |-> <<"A", "T", "+", "W", "A", "P", "I", "C", "T", ",", "%", "d", ",", "%", "s", "\r", "\n">>,
       receive_count |-> 1, pf_at_recv_parse |-> <<"at_recv_parse_ok">>],
    CONN_WAPI_BY_PWD |->
      [send |-> <<"A", "T", "+", "W", "A", "P", "I", "C", "T", ",", "%", "d", ",", "%", "s", ",", "%", "s", "\r", "\n">>,
       receive_count |-> 1, pf_at_recv_parse |-> <<"at_recv_parse_ok">>],
    CHECK_LINK_LAYER |->
      [send |-> <<"A", "T", "+", "W", "A", "P", "I", "C", "T", "=", "?", "\r", "\n">>,
       receive_count |-> 1, pf_at_recv_parse |-> <<"at_recv_parse_link_layer_check">>],
    TCP_UDP_CONN |->
      [send |-> <<"A", "T", "+", "N", "C", "R", "E", "C", "L", "N", "T", "=", "%", "s", ",", "%", "d", ".", "%", "d", ".", "%", "d", ".", "%", "d", ",", "%", "d", ",", "%", "d", ",", "%", "d", ",", "%", "d", ",", "%", "d", ",", "%", "d", ",", "%", "d", "\r", "\n">>,
       receive_count |-> 1, pf_at_recv_parse |-> <<"at_recv_parse_tcp_connect">>],
    RECV_DATA |->
      [send |-> <<"A", "T", "+", "N", "R", "E", "C", "V", ",", "%", "d", ",", "%", "d", ",", "%", "d", "\r", "\n">>,
       receive_count |-> 1, pf_at_recv_parse |-> <<"at_recv_parse_ok">>],
    SEND_DATA |->
      [send |-> <<"A", "T", "+", "N", "S", "E", "N", "D", ",", "%", "d", ",", "%", "d", ",">>,
       receive_count |-> 1, pf_at_recv_parse |-> <<"at_recv_parse_ok">>],
    UPLOAD_CERT_START |->
      [send |-> <<"A", "T", "+", "U", "P", "C", "E", "R", "T", "=", "%", "s", "\r", "\n">>,
       receive_count |-> 1, pf_at_recv_parse |-> <<"at_recv_parse_upload_cert_start">>],
    CHECK_CERT |->
      [send |-> <<"A", "T", "+", "U", "P", "C", "E", "R", "T", "=", "?", "\r", "\n">>,
       receive_count |-> 1, pf_at_recv_parse |-> <<"at_recv_parse_ok">>],
    DISCONN_SOCKET |->
      [send |-> <<"A", "T", "+", "N", "S", "T", "O", "P", ",", "%", "d", "\r", "\n">>,
       receive_count |-> 1, pf_at_recv_parse |-> <<"at_recv_parse_ok">>] ]

\* the literal each table parse callback searches for (at_recv_parse_base)
ParsePattern ==
  [ at_recv_parse_ok                |-> "+OK",
    at_recv_parse_tcp_connect       |-> "tcp alive",
    at_recv_parse_reboot            |-> "Chip re",
    at_recv_parse_upload_cert_start |-> "Start recv",
    at_recv_parse_link_layer_check  |-> "WAPI STATUS IS 1" ]

\* count_placeholder: scan the template, count "%s" and "%d", step over the
\* letter of a counted placeholder
RECURSIVE count_placeholder_from(_, _)
count_placeholder_from(str, i) ==
  IF i > Len(str) THEN 0
  ELSE IF str[i] = "%" /\ i + 1 <= Len(str) /\ str[i + 1] \in {"s", "d"}
       THEN (1 + count_placeholder_from(str, i + 2)) % U8
       ELSE count_placeholder_from(str, i + 1)
count_placeholder(str) == count_placeholder_from(str, 1)

\* AT_CMD_SEND appends the end marker to the caller's arguments
AT_CMD_END_MARKER == -559038737
AT_CMD_SEND(args) == Append(args, AT_CMD_END_MARKER)

\* count_va_args that also takes a null argument for the end of the list
RECURSIVE count_va_args_null_ends(_, _)
count_va_args_null_ends(max_cnt, va) ==
  IF va = <<>> \/ Head(va) \in {AT_CMD_END_MARKER, 0} \/ max_cnt + 1 = 0 THEN 0
  ELSE 1 + count_va_args_null_ends(max_cnt - 1, Tail(va))

\* count_va_args: read arguments until the end marker or until max_cnt + 1
\* of them have been read
RECURSIVE count_va_args_from(_, _, _)
count_va_args_from(max_cnt, va, cnt) ==
  IF ~(cnt < max_cnt + 1) THEN cnt
  ELSE IF va[cnt + 1] = AT_CMD_END_MARKER THEN cnt
  ELSE count_va_args_from(max_cnt, va, cnt + 1)
count_va_args(max_cnt, va) == count_va_args_from(max_cnt, va, 0)

\* ------------------------------------------- transparent send descriptors
NoCallback == [receive_count |-> 0, pf_at_recv_parse |-> <<"NULL", "NULL">>, arg |-> "NULL"]
\* wapi_send_data: socket-error check, then the caller's parser
CbSendData == [receive_count |-> 2, pf_at_recv_parse |-> <<"check_connect", "send_recv_cb">>,
               arg |-> "wapi_at_recv_parse"]
\* wapi_send_data_without_response / m0804c_start_recv
CbSendNoResp == [receive_count |-> 1, pf_at_recv_parse |-> <<"check_connect", "NULL">>, arg |-> "NULL"]
\* wapi_upload_cert_file_common: a non-final and the final segment
CbSegment == [receive_count |-> 1, pf_at_recv_parse |-> <<"sync_multi_send", "NULL">>, arg |-> "NULL"]
CbLastSegment == [receive_count |-> 1, pf_at_recv_parse |-> <<"multi_send_complete_cb", "NULL">>, arg |-> "NULL"]
\* descriptors the validation of at_trans_send rejects, and the count-0 one
CbTooMany == [receive_count |-> 3, pf_at_recv_parse |-> <<"check_connect", "check_connect">>, arg |-> "NULL"]

UninitInfo == [at_send_type |-> "UNINIT", cmd_entry |-> "NONE", callback |-> NoCallback, txn |-> 0]
NoLoc == [frame |-> {}, info |-> UninitInfo]
IdleCall == [pc |-> "idle", api |-> "none", func |-> "NONE", args |-> <<>>, callback |-> NoCallback,
             has_cb |-> FALSE, ret |-> "none", wrote |-> FALSE, txn |-> 0]

\* threads that call into the AT handler
Callers == {"app", "init"}

\* the process groups, one worker thread each
Groups == {"init", "cert", "pwd", "conn"}
\* threads that run a process table: the cert worker thread
\* (connect_by_cert_process) and the application thread inside m0804c_disconn
TableThreads == {"cert", "app"}
IdleTbl == [pc |-> "idle", run |-> 0, i |-> 0, j |-> 0, calls |-> 0, holds |-> FALSE,
            why |-> "none", ret |-> "none", aborts |-> <<>>]

\* uart_proto_priv_data_t before uart_proto_inst has run
NoNotify == [seq |-> 0, kind |-> "none", previous_index |-> 0, current_index |-> 0, length |-> 0,
             parse_addr |-> <<>>, bytes_used |-> 0]
\* the subscriber list: t_list_t links by node (0 is funcode_sentinel, h > 0 the
\* node behind handle h), the nodes, the status of the last call and the
\* callbacks the last dispatch invoked
NoNode == [live |-> FALSE, fun_code |-> 0, cb |-> "NULL"]
NoFuncode == [next |-> [h \in 0..MaxNodes |-> h], pre |-> [h \in 0..MaxNodes |-> h],
              node |-> [h \in 1..MaxNodes |-> NoNode], status |-> "none",
              dispatched |-> -1, calls |-> <<>>]
IdleRx == [buffer_size |-> 0, algo_type |-> "ALGO_TRANSPARENT", recv_buf |-> <<>>, parse_buf |-> <<>>,
           cndtr |-> 0, header |-> 0, tail |-> 0, data_counter |-> 0, parse_fail_count |-> 0,
           queue |-> <<>>, cur |-> <<>>, delivered |-> <<>>, nbytes |-> 0, since |-> 0,
           last |-> NoNotify, funcode |-> NoFuncode]

\* wapi_send_buf before the first send; no payload, no write yet
IdleTx == [api |-> "none", buf |-> <<>>, wapi_send_buf |-> [i \in 1..SEND_BUF_SIZE |-> 0], len |-> 0,
           uart |-> <<>>]

\* no certificate file operation in progress
IdleUp == [pc |-> "idle", file_len |-> 0, cnt |-> 0, i |-> 0, send_len |-> 0, offset |-> 0,
           last |-> FALSE, run |-> 0, timed_out |-> FALSE, log |-> <<>>,
           api |-> "none", apc |-> "idle", is_exist_certicate |-> FALSE, ret |-> "none"]

\* no helper call
IdleFn == [op |-> "none"]

NoHist == [auth_fresh |-> FALSE, last_auth |-> "CONN_BY_NOTHING", gave_up |-> {}]

VARIABLES
  \* --- at_priv_data_t and the objects it owns
  gate,          \* send_feedback_sema_handle: 1 = free, 0 = held
  send_info,     \* send_info
  remain,        \* remain_receive_count (uint8_t)
  send_queue,    \* send_queue_handle, depth 1
  timer,         \* timeout_timer: [st: idle|armed, txn]
  tpc,           \* timer service task: idle | cb (timeout_callback running), with the txn that armed
  send_buf,      \* send_buf: the command last formatted into it
  \* --- UART driver, module and UART protocol layer
  uart_tx,       \* 1 while a DMA transmission is in progress (TX-complete interrupt pending)
  mod_owed,      \* frames the module may still emit
  frame_q,       \* frame queue of the UART protocol layer
  ppc,           \* position of parse_thread / at_parse_algo
  ploc,          \* its locals: the frame and the dequeued send_info
  \* --- callers of the AT handler
  acall,         \* per thread: the at_cmd_send_impl / at_trans_send call in progress
  \* --- m0804c_priv_data_t
  trans_send_flag,
  wapi_conn_mode,
  recv_state_q,
  sem,           \* the semaphores of the device handler, by name: count in 0..1
  \* --- the worker threads (generic_wapi_thread)
  tbl,           \* per thread inside generic_process: its position in table_process
  wk,            \* per group: phase, index of the next operation of the current hook, fail_cnt
  hist,          \* history of the groups: what succeeded so far, who gave up
  \* --- history variables
  track,         \* "ids": transactions are counted and numbered, "count": counted,
                 \* "off": neither (constant along a behaviour)
  ntxn,          \* transactions started so far
  open,          \* transactions that acquired the gate and have not completed
  \* --- the layers on their own (constant in the specifications above them)
  rx,            \* uart_proto_priv_data_t with the receive ring buffer and the DMA channel
  tx,            \* wapi_send_buf, the payload handed to the send API and the UART writes it caused
  fn,            \* a call of a helper function on its own: arguments and results
  up             \* wapi_upload_cert_file_common inside table_process: its locals and what it sent

atvars == <<gate, send_info, remain, send_queue, timer, tpc, send_buf>>
envvars == <<uart_tx, mod_owed, frame_q>>
pvars == <<ppc, ploc>>
wvars == <<trans_send_flag, wapi_conn_mode, recv_state_q, sem>>
kvars == <<wk, hist, tbl>>
ghvars == <<track, ntxn, open>>
lvars == <<rx, tx, fn, up>>
\* all of lvars but one
not_rx == <<tx, fn, up>>
not_tx == <<rx, fn, up>>
not_fn == <<rx, tx, up>>
not_up == <<rx, tx, fn>>
vars == <<atvars, envvars, pvars, acall, wvars, kvars, ghvars, lvars>>

\* ------------------------------------------------------------ OS objects
sema_give(s) == IF s < 1 THEN s + 1 ELSE 1
queue_put(q, item) == IF Len(q) < 1 THEN <<item>> ELSE q
queue_put_ok(q) == Len(q) < 1

\* history of a gate acquisition by a new send; `waits` tells whether the
\* send is a transaction: one that records itself and waits for responses
NewTxn == IF track = "ids" THEN ntxn + 1 ELSE 0
Acquired(waits) ==
  /\ ntxn' = IF track # "off" THEN ntxn + 1 ELSE ntxn
  /\ open' = IF track = "ids" /\ waits THEN open \cup {ntxn + 1} ELSE open
  /\ UNCHANGED track

\* history of a gate release; `done` is the set of transactions that
\* complete in the same step
Released(t, done) ==
  /\ open' = open \ done
  /\ UNCHANGED <<track, ntxn>>

\* ======================================================================
\*                            AT command handler
\* ======================================================================

\* at_reset_send_state: force-release the gate (reset_rx_state touches only
\* the byte counters of the UART protocol layer)
at_reset_send_state(t) ==
  /\ gate' = sema_give(gate)
  /\ Released(t, {})

\* at_cmd_send_impl with the pending-send record written before the gate is
\* taken (the two blocks of the function swapped)
at_cmd_send_impl_records_first(t, f, args) ==
  /\ acall[t].pc = "idle"
  /\ f \in DOMAIN m0804c_at_table
  /\ count_va_args(count_placeholder(m0804c_at_table[f].send), AT_CMD_SEND(args))
       = count_placeholder(m0804c_at_table[f].send)
  /\ send_buf' = f
  /\ send_info' = [at_send_type |-> "SEND_CMD", cmd_entry |-> f, callback |-> NoCallback, txn |-> NewTxn]
  /\ remain' = m0804c_at_table[f].receive_count
  /\ IF gate = 0
     THEN /\ acall' = [acall EXCEPT ![t] = [IdleCall EXCEPT !.pc = "done", !.api = "cmd",
                                                            !.ret = "AT_ERR_NOT_CONSUMED"]]
          /\ UNCHANGED <<gate, ghvars>>
     ELSE /\ gate' = 0
          /\ Acquired(TRUE)
          /\ acall' = [acall EXCEPT ![t] = [IdleCall EXCEPT !.pc = "rec", !.api = "cmd", !.func = f,
                                                            !.txn = NewTxn]]
  /\ UNCHANGED <<send_queue, timer, tpc, envvars, pvars, wvars, kvars>>

\* at_cmd_send_impl up to and including the acquisition of the gate:
\* table lookup, argument count check, formatting into send_buf, sema take
at_cmd_send_impl(t, f, args) ==
  /\ acall[t].pc = "idle"
  /\ LET c0 == [IdleCall EXCEPT !.pc = "done", !.api = "cmd", !.func = f, !.args = args]
     IN
     IF f \notin DOMAIN m0804c_at_table
     THEN /\ acall' = [acall EXCEPT ![t] = [c0 EXCEPT !.ret = "AT_ERR_CMD_NOT_FOUND"]]
          /\ UNCHANGED <<gate, send_buf, ghvars>>
     ELSE LET expected_param_count == count_placeholder(m0804c_at_table[f].send)
              actual_param_count == count_va_args(expected_param_count, AT_CMD_SEND(args))
          IN
          IF actual_param_count # expected_param_count
          THEN /\ acall' = [acall EXCEPT ![t] = [c0 EXCEPT !.ret = "AT_ERR_PARAM_INVALID"]]
               /\ UNCHANGED <<gate, send_buf, ghvars>>
          ELSE /\ send_buf' = f
               /\ IF gate = 0
                  THEN /\ acall' = [acall EXCEPT ![t] = [c0 EXCEPT !.ret = "AT_ERR_NOT_CONSUMED"]]
                       /\ UNCHANGED <<gate, ghvars>>
                  ELSE /\ gate' = 0
                       /\ Acquired(TRUE)
                       /\ acall' = [acall EXCEPT ![t] = [c0 EXCEPT !.pc = "rec", !.txn = NewTxn]]
  /\ UNCHANGED <<send_info, remain, send_queue, timer, tpc, envvars, pvars, wvars, kvars>>

\* at_cmd_send_impl after the acquisition: record the pending send, write
at_cmd_send_record(t) ==
  /\ acall[t].pc = "rec" /\ acall[t].api = "cmd"
  /\ send_info' = [at_send_type |-> "SEND_CMD", cmd_entry |-> acall[t].func,
                   callback |-> NoCallback, txn |-> acall[t].txn]
  /\ remain' = m0804c_at_table[acall[t].func].receive_count
  /\ uart_tx' = 1
  /\ acall' = [acall EXCEPT ![t] = [IdleCall EXCEPT !.pc = "tmr", !.api = "cmd", !.wrote = TRUE,
                                                    !.txn = acall[t].txn]]
  /\ UNCHANGED <<gate, send_queue, timer, tpc, send_buf, mod_owed, frame_q, pvars, wvars, kvars, ghvars>>

\* TIMER_START and return AT_OK (both send functions end this way)
at_send_timer_start(t) ==
  /\ acall[t].pc = "tmr"
  /\ timer' = [st |-> "armed", txn |-> acall[t].txn]
  /\ acall' = [acall EXCEPT ![t].pc = "done", ![t].ret = "AT_OK", ![t].txn = 0]
  /\ UNCHANGED <<gate, send_info, remain, send_queue, tpc, send_buf, envvars, pvars, wvars, kvars, ghvars>>

\* the callback descriptor checks of at_trans_send
trans_send_with_cb(has_cb, cb) == has_cb /\ cb.pf_at_recv_parse[1] # "NULL"
trans_send_recv_count(cb) == IF cb.receive_count # 0 THEN cb.receive_count ELSE 1
trans_send_valid(has_cb, cb) ==
  /\ trans_send_with_cb(has_cb, cb)
  /\ trans_send_recv_count(cb) <= MAX_RECV_CNT_OF_TRANS_SEND
  /\ \A i \in 1..trans_send_recv_count(cb) : cb.pf_at_recv_parse[i] # "NULL"

\* at_trans_send up to and including the acquisition of the gate
at_trans_send(t, has_cb, cb) ==
  /\ acall[t].pc \in {"idle", "wsend"}
  /\ LET c0 == [IdleCall EXCEPT !.pc = "done", !.api = "trans"]
     IN IF gate = 0
        THEN /\ acall' = [acall EXCEPT ![t] = [c0 EXCEPT !.ret = "AT_ERR_NOT_CONSUMED"]]
             /\ UNCHANGED <<gate, ghvars>>
        ELSE /\ gate' = 0
             /\ Acquired(trans_send_valid(has_cb, cb))
             /\ acall' = [acall EXCEPT ![t] = [c0 EXCEPT !.pc = "rec", !.has_cb = has_cb, !.callback = cb,
                                                            !.txn = NewTxn]]
  /\ UNCHANGED <<send_info, remain, send_queue, timer, tpc, send_buf, envvars, pvars, wvars, kvars>>

\* at_trans_send with the pending-send record written before the descriptor
\* is validated
at_trans_send_record_validates_late(t) ==
  /\ acall[t].pc = "rec" /\ acall[t].api = "trans"
  /\ LET c == acall[t]
         cb == c.callback
         with_cb == trans_send_with_cb(c.has_cb, cb)
         recv_count == trans_send_recv_count(cb)
         invalid == with_cb /\ ~trans_send_valid(c.has_cb, cb)
     IN
     IF invalid
     THEN /\ send_info' = [at_send_type |-> "SEND_TRANSPARENT", cmd_entry |-> "NONE",
                           callback |-> cb, txn |-> c.txn]
          /\ remain' = recv_count
          /\ gate' = sema_give(gate)
          /\ Released(c.txn, {c.txn})
          /\ acall' = [acall EXCEPT ![t] = [IdleCall EXCEPT !.pc = "done", !.api = "trans",
                                                            !.ret = "AT_ERR_PARAM_INVALID"]]
          /\ UNCHANGED uart_tx
     ELSE IF with_cb
     THEN /\ send_info' = [at_send_type |-> "SEND_TRANSPARENT", cmd_entry |-> "NONE",
                           callback |-> cb, txn |-> c.txn]
          /\ remain' = recv_count
          /\ uart_tx' = 1
          /\ acall' = [acall EXCEPT ![t] = [IdleCall EXCEPT !.pc = "tmr", !.api = "trans",
                                                            !.wrote = TRUE, !.txn = c.txn]]
          /\ UNCHANGED <<gate, ghvars>>
     ELSE /\ uart_tx' = 1
          /\ gate' = sema_give(gate)
          /\ Released(c.txn, {c.txn})
          /\ acall' = [acall EXCEPT ![t] = [IdleCall EXCEPT !.pc = "done", !.api = "trans",
                                                            !.ret = "AT_OK", !.wrote = TRUE]]
          /\ UNCHANGED <<send_info, remain>>
  /\ UNCHANGED <<send_queue, timer, tpc, send_buf, mod_owed, frame_q, pvars, wvars, kvars>>

\* at_trans_send after the acquisition: validate the descriptor, record the
\* pending send, write; without a callback release the gate and return
at_trans_send_record(t) ==
  /\ acall[t].pc = "rec" /\ acall[t].api = "trans"
  /\ LET c == acall[t]
         cb == c.callback
         with_cb == trans_send_with_cb(c.has_cb, cb)
         recv_count == trans_send_recv_count(cb)
         invalid == with_cb /\ ~trans_send_valid(c.has_cb, cb)
     IN
     IF invalid
     THEN /\ gate' = sema_give(gate)
          /\ Released(c.txn, {c.txn})
          /\ acall' = [acall EXCEPT ![t] = [IdleCall EXCEPT !.pc = "done", !.api = "trans",
                                                            !.ret = "AT_ERR_PARAM_INVALID"]]
          /\ UNCHANGED <<send_info, remain, uart_tx>>
     ELSE IF with_cb
     THEN /\ send_info' = [at_send_type |-> "SEND_TRANSPARENT", cmd_entry |-> "NONE",
                           callback |-> cb, txn |-> c.txn]
          /\ remain' = recv_count
          /\ uart_tx' = 1
          /\ acall' = [acall EXCEPT ![t] = [IdleCall EXCEPT !.pc = "tmr", !.api = "trans",
                                                            !.wrote = TRUE, !.txn = c.txn]]
          /\ UNCHANGED <<gate, ghvars>>
     ELSE /\ uart_tx' = 1
          /\ gate' = sema_give(gate)
          /\ Released(c.txn, {c.txn})
          /\ acall' = [acall EXCEPT ![t] = [IdleCall EXCEPT !.pc = "done", !.api = "trans",
                                                            !.ret = "AT_OK", !.wrote = TRUE]]
          /\ UNCHANGED <<send_info, remain>>
  /\ UNCHANGED <<send_queue, timer, tpc, send_buf, mod_owed, frame_q, pvars, wvars, kvars>>

\* the send function has returned and the caller has read its result
at_send_return(t) ==
  /\ acall[t].pc = "done"
  /\ acall' = [acall EXCEPT ![t] = IdleCall]
  /\ UNCHANGED <<atvars, envvars, pvars, wvars, kvars, ghvars>>

\* at_send_complete_isr_cb (TX-complete interrupt): queue the pending-send
\* record; the module has now received the command
at_send_complete_isr_cb ==
  /\ uart_tx = 1
  /\ uart_tx' = 0
  /\ send_queue' = queue_put(send_queue, send_info)
  /\ mod_owed' = MaxResp
  /\ UNCHANGED <<gate, send_info, remain, timer, tpc, send_buf, frame_q, pvars, acall, wvars, kvars, ghvars>>

\* timer service task: the one-shot timer expires
timer_expire ==
  /\ timer.st = "armed" /\ tpc.st = "idle"
  /\ timer' = [st |-> "idle", txn |-> 0]
  /\ tpc' = [st |-> "cb", txn |-> timer.txn]
  /\ UNCHANGED <<gate, send_info, remain, send_queue, send_buf, envvars, pvars, acall, wvars, kvars, ghvars>>

\* timeout_callback that drains the queue and forgets the gate
timeout_callback_keeps_gate ==
  /\ tpc.st = "cb"
  /\ send_queue' = <<>>
  /\ tpc' = [st |-> "idle", txn |-> 0]
  /\ UNCHANGED <<gate, send_info, remain, timer, send_buf, envvars, pvars, acall, wvars, kvars, ghvars>>

\* timeout_callback: drain the send-info queue, release the gate
timeout_callback ==
  /\ tpc.st = "cb"
  /\ send_queue' = <<>>
  /\ gate' = sema_give(gate)
  /\ Released(tpc.txn, {tpc.txn})
  /\ tpc' = [st |-> "idle", txn |-> 0]
  /\ UNCHANGED <<send_info, remain, timer, send_buf, envvars, pvars, acall, wvars, kvars>>

\* ======================================================================
\*        UART protocol layer: frame arrival and the parse thread
\* ======================================================================

\* idle-line interrupt -> notify_isr_cb -> parse_transparent_mode: the
\* pending bytes are queued as one frame (queue_put with timeout 0)
notify_isr_cb(f) ==
  /\ mod_owed > 0
  /\ mod_owed' = mod_owed - 1
  /\ frame_q' = IF Len(frame_q) < MAX_PARSE_NUM_ONCE_TRIGGER THEN Append(frame_q, f) ELSE frame_q
  /\ UNCHANGED <<atvars, uart_tx, pvars, acall, wvars, kvars, ghvars>>

\* parse_thread: blocking queue_get on the frame queue, then
\* handle_transparent_parse -> at_parse_algo
parse_thread ==
  /\ ppc = "wait" /\ frame_q # <<>>
  /\ ploc' = [frame |-> Head(frame_q), info |-> UninitInfo]
  /\ frame_q' = Tail(frame_q)
  /\ ppc' = "algo"
  /\ UNCHANGED <<atvars, uart_tx, mod_owed, acall, wvars, kvars, ghvars>>

\* at_parse_algo: pull the pending-send record from the send-info queue
at_parse_algo_get ==
  /\ ppc = "algo"
  /\ IF send_queue = <<>>
     THEN /\ ppc' = "wait" /\ ploc' = NoLoc /\ UNCHANGED send_queue
     ELSE /\ ploc' = [ploc EXCEPT !.info = Head(send_queue)]
          /\ send_queue' = <<>>
          /\ ppc' = "cb"
  /\ UNCHANGED <<gate, send_info, remain, timer, tpc, send_buf, envvars, acall, wvars, kvars, ghvars>>

\* the parse-callback slot at_parse_algo selects: index, whether the index
\* check returns early, and the callback with its arg
parse_algo_index(info) ==
  IF info.at_send_type = "SEND_CMD"
  THEN (m0804c_at_table[info.cmd_entry].receive_count - remain) % U8
  ELSE (info.callback.receive_count - remain) % U8

parse_algo_invalid(info) ==
  IF info.at_send_type = "SEND_CMD"
  THEN parse_algo_index(info) > m0804c_at_table[info.cmd_entry].receive_count
  ELSE parse_algo_index(info) >= info.callback.receive_count

\* cmd_entry->pf_at_recv_parse[index]; the slot one past the array is the
\* member that follows it in at_cmd_set_t (arg, NULL in every table entry)
parse_algo_slot(info) ==
  LET idx == parse_algo_index(info)
      arr == IF info.at_send_type = "SEND_CMD"
             THEN m0804c_at_table[info.cmd_entry].pf_at_recv_parse
             ELSE info.callback.pf_at_recv_parse
  IN IF idx < Len(arr) THEN arr[idx + 1] ELSE "NULL"

\* the parse callbacks of WAPI_M0804C.c that finish in one step
\* at_recv_parse_base / recv_force_correct: report to the receive-state queue
at_recv_parse_base(f, string) ==
  recv_state_q' = queue_put(recv_state_q, [is_success |-> find_substring_in_buffer(f, string)])

recv_force_correct ==
  recv_state_q' = queue_put(recv_state_q, [is_success |-> TRUE])

\* sync_multi_send: at_reset_send_state, then release the per-segment semaphore
sync_multi_send(txn) ==
  /\ at_reset_send_state(txn)
  /\ sem' = [sem EXCEPT !.multi_send_syn = sema_give(@)]

\* at_parse_algo: select the slot and invoke the callback
at_parse_algo_dispatch ==
  /\ ppc = "cb"
  /\ LET info == ploc.info
         f == ploc.frame
         cb == parse_algo_slot(info)
     IN
     IF info.at_send_type \notin {"SEND_CMD", "SEND_TRANSPARENT"}
     THEN /\ ppc' = "post"
          /\ UNCHANGED <<gate, ploc, wvars, ghvars>>
     ELSE IF parse_algo_invalid(info)
     THEN /\ ppc' = "wait" /\ ploc' = NoLoc
          /\ UNCHANGED <<gate, wvars, ghvars>>
     ELSE IF cb \in DOMAIN ParsePattern
     THEN /\ at_recv_parse_base(f, ParsePattern[cb])
          /\ ppc' = "post"
          /\ UNCHANGED <<gate, ploc, trans_send_flag, wapi_conn_mode, sem, ghvars>>
     ELSE IF cb = "sync_multi_send"
     THEN /\ sync_multi_send(info.txn)
          /\ ppc' = "post"
          /\ UNCHANGED <<ploc, trans_send_flag, wapi_conn_mode, recv_state_q>>
     ELSE IF cb = "multi_send_complete_cb"
     THEN /\ sync_multi_send(info.txn)
          /\ recv_force_correct
          /\ ppc' = "post"
          /\ UNCHANGED <<ploc, trans_send_flag, wapi_conn_mode>>
     ELSE IF cb \in {"check_connect", "send_recv_cb"} /\ find_substring_in_buffer(f, SOCK_ERR)
     THEN \* check_connect: clear the flag, m0804c_init
          /\ trans_send_flag' = FALSE
          /\ sem' = [sem EXCEPT !.init_start = sema_give(@)]
          /\ ppc' = "cc_mode"
          /\ UNCHANGED <<gate, ploc, wapi_conn_mode, recv_state_q, ghvars>>
     ELSE \* NULL slot, check_connect without the literal, the caller's parser
          /\ ppc' = "post"
          /\ UNCHANGED <<gate, ploc, wvars, ghvars>>
  /\ UNCHANGED <<send_info, remain, send_queue, timer, tpc, send_buf, envvars, acall, kvars>>

\* check_connect, second half: m0804c_use_cert_conn / m0804c_use_pwd_conn for
\* the auth mode recorded in wapi_conn_mode
check_connect_mode ==
  /\ ppc = "cc_mode"
  /\ sem' = IF wapi_conn_mode = "CONN_BY_CERT" THEN [sem EXCEPT !.use_cert = sema_give(@)]
            ELSE IF wapi_conn_mode = "CONN_BY_PWD" THEN [sem EXCEPT !.use_pwd = sema_give(@)]
            ELSE sem
  /\ ppc' = "post"
  /\ UNCHANGED <<atvars, envvars, ploc, acall, trans_send_flag, wapi_conn_mode, recv_state_q,
                 kvars, ghvars>>

\* at_parse_algo after the callback: decrement the remaining count, then
\* either TIMER_STOP (transaction complete, or re-queue failed) or re-queue
at_parse_algo_count ==
  /\ ppc = "post"
  /\ LET info == ploc.info
         r == IF remain > 0 THEN remain - 1 ELSE remain
         complete == \/ r = 0
                     \/ info.at_send_type = "SEND_CMD" /\ r > MAX_RECV_CNT_OF_CMD_SEND
                     \/ info.at_send_type = "SEND_TRANSPARENT" /\ r > MAX_RECV_CNT_OF_TRANS_SEND
     IN /\ remain' = r
        /\ IF complete \/ ~queue_put_ok(send_queue)
           THEN /\ timer' = [st |-> "idle", txn |-> 0]
                /\ ppc' = "rel"
                /\ open' = open \ {info.txn}
                /\ UNCHANGED send_queue
           ELSE /\ send_queue' = queue_put(send_queue, info)
                /\ ppc' = "tstart"
                /\ UNCHANGED <<timer, open>>
  /\ UNCHANGED <<gate, send_info, tpc, send_buf, envvars, ploc, acall, wvars, kvars,
                 track, ntxn>>

\* at_parse_algo: RELEASE_SEND_FEEDBACK_SEMA after TIMER_STOP
at_parse_algo_release ==
  /\ ppc = "rel"
  /\ gate' = sema_give(gate)
  /\ Released(ploc.info.txn, {})
  /\ ppc' = "wait" /\ ploc' = NoLoc
  /\ UNCHANGED <<send_info, remain, send_queue, timer, tpc, send_buf, envvars, acall, wvars, kvars>>

\* at_parse_algo: TIMER_START for the next expected segment
at_parse_algo_timer ==
  /\ ppc = "tstart"
  /\ timer' = [st |-> "armed", txn |-> ploc.info.txn]
  /\ ppc' = "wait" /\ ploc' = NoLoc
  /\ UNCHANGED <<gate, send_info, remain, send_queue, tpc, send_buf, envvars, acall, wvars, kvars, ghvars>>

\* the steps of the parse thread outside check_connect's second half, and
\* the steps of the timer service task
ParseThread ==
  \/ parse_thread
  \/ at_parse_algo_get
  \/ at_parse_algo_dispatch
  \/ at_parse_algo_count
  \/ at_parse_algo_release
  \/ at_parse_algo_timer

TimerTask == timer_expire \/ timeout_callback

\* ======================================================================
\*  SpecAT: the AT handler driven by two threads issuing arbitrary sends
\* ======================================================================
\* "init" stands for a worker thread (command sends, reset_wapi_state),
\* "app" for the application task (transparent sends)
Senders == {"app", "init"}
CmdInputs == {<<"SET_ECHO", <<0>>>>, <<"SET_ECHO", <<0, 0>>>>, <<"NO_SUCH_FUNC", <<>>>>}
TransInputs == {<<TRUE, CbSendData>>, <<TRUE, CbSegment>>, <<FALSE, NoCallback>>,
                <<TRUE, CbTooMany>>}
\* the module answers "+OK" frames only: no socket error reaches check_connect
FramesAT == {FrameOk}

InitBase ==
  /\ gate = 1
  /\ send_info = UninitInfo
  /\ remain = 0
  /\ send_queue = <<>>
  /\ timer = [st |-> "idle", txn |-> 0]
  /\ tpc = [st |-> "idle", txn |-> 0]
  /\ send_buf = "NONE"
  /\ uart_tx = 0
  /\ mod_owed = 0
  /\ frame_q = <<>>
  /\ ppc = "wait"
  /\ ploc = NoLoc
  /\ trans_send_flag = FALSE
  /\ wapi_conn_mode = "CONN_BY_NOTHING"
  /\ recv_state_q = <<>>
  /\ sem = [process_syn |-> 1, multi_send_syn |-> 1, init_start |-> 0, init_success |-> 0,
            use_cert |-> 0, use_pwd |-> 0, connect_cfg_success |-> 0]
  /\ wk = [g \in Groups |-> [phase |-> "start", i |-> 1, fail_cnt |-> 0]]
  /\ hist = NoHist
  /\ tbl = [t \in TableThreads |-> IdleTbl]
  /\ ntxn = 0
  /\ open = {}

\* the layers modelled on their own are not instantiated
InitLib == rx = IdleRx /\ tx = IdleTx /\ fn = IdleFn /\ up = IdleUp

InitCommon == InitBase /\ acall = [t \in Callers |-> IdleCall] /\ InitLib

InitAT == InitCommon /\ track = "ids"

\* a sender thread calls at_cmd_send_impl / at_trans_send
SendCmd == \E i \in CmdInputs : ntxn < MaxTxn /\ at_cmd_send_impl("init", i[1], i[2])
SendTrans ==
  \E i \in TransInputs : ntxn < MaxTxn /\ acall["app"].pc = "idle" /\ at_trans_send("app", i[1], i[2])
SendReturn == \E t \in Senders : at_send_return(t)
SendCmdRecord == \E t \in Senders : at_cmd_send_record(t)
SendTransRecord == \E t \in Senders : at_trans_send_record(t)
SendTimerStart == \E t \in Senders : at_send_timer_start(t)
\* reset_wapi_state called by a thread that is not inside a send
\* (init_process_start, m0804c_cert_upload)
reset_wapi_state(t) ==
  /\ acall[t].pc = "idle"
  /\ at_reset_send_state(0)
  /\ UNCHANGED <<send_info, remain, send_queue, timer, tpc, send_buf, envvars, pvars, acall, wvars, kvars>>
ResetState == gate = 0 /\ reset_wapi_state("init")
ModuleAnswersAT == \E f \in FramesAT : notify_isr_cb(f)

NextAT ==
  \/ SendCmd /\ UNCHANGED lvars
  \/ SendTrans /\ UNCHANGED lvars
  \/ SendCmdRecord /\ UNCHANGED lvars
  \/ SendTransRecord /\ UNCHANGED lvars
  \/ SendTimerStart /\ UNCHANGED lvars
  \/ SendReturn /\ UNCHANGED lvars
  \/ ResetState /\ UNCHANGED lvars
  \/ at_send_complete_isr_cb /\ UNCHANGED lvars
  \/ ModuleAnswersAT /\ UNCHANGED lvars
  \/ ParseThread /\ UNCHANGED lvars
  \/ TimerTask /\ UNCHANGED lvars

SpecAT == InitAT /\ [][NextAT]_vars

\* the same system with transactions counted but not numbered, and the
\* scheduling of the RTOS: a ready thread (a sender inside a send function,
\* the parse thread, the timer service task) eventually runs
InitATLive == InitCommon /\ track = "count"
SpecATLive ==
  /\ InitATLive
  /\ [][NextAT]_vars
  /\ WF_vars(TimerTask /\ UNCHANGED lvars)
  /\ WF_vars(ParseThread /\ UNCHANGED lvars)
  /\ WF_vars((SendCmdRecord \/ SendTransRecord \/ SendTimerStart) /\ UNCHANGED lvars)

\* ======================================================================
\*              M0804C device handler: process groups and gating
\* ======================================================================

\* The hooks of a group are lists of operations on the handler's state:
\* take (pf_sema_take with OS_DELAY_MAX), take0 (timeout 0), give, mode
\* (assignment to wapi_conn_mode), flag (trans_send_flag = true), reset
\* (reset_wapi_state), pwr (pf_m0804c_open / pf_m0804c_close: the thread
\* sleeps while the power pin settles; nothing of this state changes).
Op(kind, arg) == [op |-> kind, arg |-> arg]

init_process_start ==
  <<Op("take", "init_start"), Op("take0", "init_success"), Op("pwr", "open"),
    Op("mode", "CONN_BY_NOTHING"), Op("reset", "")>>
init_process_retry == <<Op("pwr", "close"), Op("give", "init_start")>>
init_process_success == <<Op("give", "init_success")>>

conn_cfg_by_cert_process_start ==
  <<Op("take", "use_cert"), Op("take0", "connect_cfg_success"), Op("take", "init_success")>>
conn_cfg_by_cert_process_retry == <<Op("give", "init_success"), Op("give", "use_cert")>>
conn_cfg_by_cert_process_success == <<Op("mode", "CONN_BY_CERT"), Op("give", "connect_cfg_success")>>

conn_cfg_by_pwd_process_start ==
  <<Op("take", "use_pwd"), Op("take0", "connect_cfg_success"), Op("take", "init_success")>>
conn_cfg_by_pwd_process_retry == <<Op("give", "init_success"), Op("give", "use_pwd")>>
conn_cfg_by_pwd_process_success == <<Op("mode", "CONN_BY_PWD"), Op("give", "connect_cfg_success")>>

conn_process_start == <<Op("take", "connect_cfg_success")>>
conn_process_retry == <<Op("give", "connect_cfg_success")>>
conn_process_success == <<Op("flag", "")>>

\* init_callbacks, conn_cfg_by_cert_callbacks, conn_cfg_by_pwd_callbacks, conn_callbacks
process_callbacks ==
  [ init |-> [start |-> init_process_start, retry |-> init_process_retry,
              success |-> init_process_success],
    cert |-> [start |-> conn_cfg_by_cert_process_start, retry |-> conn_cfg_by_cert_process_retry,
              success |-> conn_cfg_by_cert_process_success],
    pwd  |-> [start |-> conn_cfg_by_pwd_process_start, retry |-> conn_cfg_by_pwd_process_retry,
              success |-> conn_cfg_by_pwd_process_success],
    conn |-> [start |-> conn_process_start, retry |-> conn_process_retry,
              success |-> conn_process_success] ]

\* the handler state the hooks work on
HookState == [sem |-> sem, mode |-> wapi_conn_mode, flag |-> trans_send_flag, gate |-> gate]

\* the effect of one operation that does not block
op_effect(o, st) ==
  CASE o.op \in {"take", "take0"} -> [st EXCEPT !.sem[o.arg] = 0]
    [] o.op = "give"  -> [st EXCEPT !.sem[o.arg] = sema_give(@)]
    [] o.op = "mode"  -> [st EXCEPT !.mode = o.arg]
    [] o.op = "flag"  -> [st EXCEPT !.flag = TRUE]
    [] o.op = "reset" -> [st EXCEPT !.gate = sema_give(@)]
    [] OTHER          -> st

\* a thread runs from operation i until it would block: up to the next take
\* with OS_DELAY_MAX or the next sleep.  run_until is the index it stops at
\* (Len + 1: the hook is finished), run_effect the state it leaves.
RECURSIVE run_until(_, _)
run_until(ops, i) ==
  IF i > Len(ops) \/ ops[i].op \in {"take", "pwr"} THEN i ELSE run_until(ops, i + 1)

RECURSIVE run_effect(_, _, _, _)
run_effect(ops, i, stop, st) ==
  IF i >= stop THEN st ELSE run_effect(ops, i + 1, stop, op_effect(ops[i], st))

\* a whole hook whose operations never wait for another thread (retry and
\* success hooks)
hook_effect(ops, st) == run_effect(ops, 1, Len(ops) + 1, st)

hook_assign(st) ==
  /\ sem' = st.sem
  /\ wapi_conn_mode' = st.mode
  /\ trans_send_flag' = st.flag
  /\ gate' = st.gate

\* generic_wapi_thread inside pf_process_start: the thread passes the
\* operation it is blocked at and runs on to the next blocking one; after
\* the last operation it is inside process_fn
hook_step(g) ==
  /\ wk[g].phase = "start"
  /\ LET ops == process_callbacks[g].start
         i == wk[g].i
         stop == run_until(ops, i + 1)
     IN /\ ops[i].op = "take" => sem[ops[i].arg] = 1
        /\ hook_assign(run_effect(ops, i, stop, HookState))
        /\ wk' = [wk EXCEPT ![g] = IF stop > Len(ops) THEN [@ EXCEPT !.phase = "run", !.i = 1]
                                   ELSE [@ EXCEPT !.i = stop]]
        /\ hist' = [hist EXCEPT !.gave_up = @ \ {g}]
  /\ UNCHANGED <<send_info, remain, send_queue, timer, tpc, send_buf, envvars, pvars, acall,
                 recv_state_q, tbl, ghvars>>

\* the auth mode a group establishes
group_mode(g) ==
  IF g = "cert" THEN "CONN_BY_CERT" ELSE IF g = "pwd" THEN "CONN_BY_PWD" ELSE "CONN_BY_NOTHING"

\* variant: a failure at the limit runs the retry hook as well
process_return_retries_at_limit(g, ret) ==
  /\ wk[g].phase = "run"
  /\ IF ret = "WAPI_OK"
     THEN /\ wk' = [wk EXCEPT ![g] = [phase |-> "start", i |-> 1, fail_cnt |-> 0]]
          /\ hook_assign(hook_effect(process_callbacks[g].success, HookState))
          /\ hist' = IF g = "init" THEN [hist EXCEPT !.auth_fresh = FALSE]
                     ELSE IF g \in {"cert", "pwd"}
                     THEN [hist EXCEPT !.auth_fresh = TRUE, !.last_auth = group_mode(g)]
                     ELSE hist
     ELSE /\ wk' = [wk EXCEPT ![g] = [phase |-> "start", i |-> 1,
                                      fail_cnt |-> IF wk[g].fail_cnt < WAPI_PROCESS_FAIL_MAX
                                                   THEN wk[g].fail_cnt + 1 ELSE wk[g].fail_cnt]]
          /\ hook_assign(hook_effect(process_callbacks[g].retry, HookState))
          /\ hist' = IF wk[g].fail_cnt < WAPI_PROCESS_FAIL_MAX THEN hist
                     ELSE [hist EXCEPT !.gave_up = @ \cup {g}]
  /\ UNCHANGED <<send_info, remain, send_queue, timer, tpc, send_buf, envvars, pvars, acall,
                 recv_state_q, tbl, ghvars>>

\* generic_wapi_thread after process_fn returned ret (decided by what the
\* module answered): success resets fail_cnt and runs pf_process_success, a
\* failure below the limit counts and runs pf_process_retry, a failure at
\* the limit reports the error; then the loop starts over
process_return(g, ret) ==
  /\ wk[g].phase = "run"
  /\ IF ret = "WAPI_OK"
     THEN /\ wk' = [wk EXCEPT ![g] = [phase |-> "start", i |-> 1, fail_cnt |-> 0]]
          /\ hook_assign(hook_effect(process_callbacks[g].success, HookState))
          /\ hist' = IF g = "init" THEN [hist EXCEPT !.auth_fresh = FALSE]
                     ELSE IF g \in {"cert", "pwd"}
                     THEN [hist EXCEPT !.auth_fresh = TRUE, !.last_auth = group_mode(g)]
                     ELSE hist
     ELSE IF wk[g].fail_cnt < WAPI_PROCESS_FAIL_MAX
     THEN /\ wk' = [wk EXCEPT ![g] = [phase |-> "start", i |-> 1, fail_cnt |-> wk[g].fail_cnt + 1]]
          /\ hook_assign(hook_effect(process_callbacks[g].retry, HookState))
          /\ UNCHANGED hist
     ELSE /\ hist' = [hist EXCEPT !.gave_up = @ \cup {g}]
          /\ wk' = [wk EXCEPT ![g] = [phase |-> "start", i |-> 1, fail_cnt |-> wk[g].fail_cnt]]
          /\ UNCHANGED <<gate, sem, wapi_conn_mode, trans_send_flag>>
  /\ UNCHANGED <<send_info, remain, send_queue, timer, tpc, send_buf, envvars, pvars, acall,
                 recv_state_q, tbl, ghvars>>

\* public API: m0804c_init, m0804c_use_cert_conn, m0804c_use_pwd_conn
m0804c_init ==
  /\ sem' = [sem EXCEPT !.init_start = sema_give(@)]
  /\ UNCHANGED <<atvars, envvars, pvars, acall, trans_send_flag, wapi_conn_mode, recv_state_q, kvars, ghvars>>

m0804c_use_cert_conn ==
  /\ sem' = [sem EXCEPT !.use_cert = sema_give(@)]
  /\ UNCHANGED <<atvars, envvars, pvars, acall, trans_send_flag, wapi_conn_mode, recv_state_q, kvars, ghvars>>

m0804c_use_pwd_conn ==
  /\ sem' = [sem EXCEPT !.use_pwd = sema_give(@)]
  /\ UNCHANGED <<atvars, envvars, pvars, acall, trans_send_flag, wapi_conn_mode, recv_state_q, kvars, ghvars>>

\* variant: the send APIs do not look at trans_send_flag
m0804c_send_common_ignores_flag(t, api, cb) ==
  /\ acall[t].pc = "idle"
  /\ acall' = [acall EXCEPT ![t] =
                 [IdleCall EXCEPT !.pc = "wsend", !.api = api, !.has_cb = TRUE, !.callback = cb]]
  /\ UNCHANGED <<atvars, envvars, pvars, wvars, kvars, ghvars>>

\* m0804c_send / m0804c_send_without_response up to the call of
\* wapi_send_data / wapi_send_data_without_response
m0804c_send_common(t, api, cb) ==
  /\ acall[t].pc = "idle"
  /\ acall' = [acall EXCEPT ![t] =
                 IF trans_send_flag
                 THEN [IdleCall EXCEPT !.pc = "wsend", !.api = api, !.has_cb = TRUE, !.callback = cb]
                 ELSE [IdleCall EXCEPT !.pc = "done", !.api = api, !.ret = "WAPI_ERR_SEND_NOT_READY"]]
  /\ UNCHANGED <<atvars, envvars, pvars, wvars, kvars, ghvars>>

m0804c_send(t) == m0804c_send_common(t, "m0804c_send", CbSendData)
m0804c_send_without_response(t) == m0804c_send_common(t, "m0804c_send_without_response", CbSendNoResp)

\* wapi_send_data / wapi_send_data_without_response: the transparent send
wapi_send_data(t) ==
  /\ acall[t].pc = "wsend"
  /\ at_trans_send(t, TRUE, acall[t].callback)

\* ======================================================================
\*   Spec: the device handler with its four worker threads, an
\*   application task using the public API, the module, the parse thread
\*   and the timer service task
\* ======================================================================
FramesDev == {FrameOk, FrameSockErr}
Results == {"WAPI_OK", "WAPI_ERR_OTHERS"}
SumFail == wk["init"].fail_cnt + wk["cert"].fail_cnt + wk["pwd"].fail_cnt + wk["conn"].fail_cnt

\* the application has constructed the handler (m0804c_inst) and is about to
\* call m0804c_init
Init ==
  /\ InitBase
  /\ acall = [t \in Callers |-> IF t = "app" THEN [IdleCall EXCEPT !.pc = "boot_init"] ELSE IdleCall]
  /\ track = "count"
  /\ InitLib

\* wapi_commu_init after m0804c_inst: m0804c_init, then m0804c_use_cert_conn,
\* then the task that sends is created
wapi_commu_init ==
  /\ acall["app"].pc \in {"boot_init", "boot_auth"}
  /\ IF acall["app"].pc = "boot_init"
     THEN /\ sem' = [sem EXCEPT !.init_start = sema_give(@)]
          /\ acall' = [acall EXCEPT !["app"].pc = "boot_auth"]
     ELSE /\ sem' = [sem EXCEPT !.use_cert = sema_give(@)]
          /\ acall' = [acall EXCEPT !["app"] = IdleCall]
  /\ UNCHANGED <<atvars, envvars, pvars, trans_send_flag, wapi_conn_mode, recv_state_q, kvars, ghvars>>

HookStep == \E g \in Groups : hook_step(g)
ProcessReturn ==
  \E g \in Groups : \E ret \in Results :
    (ret # "WAPI_OK" => SumFail < MaxFail) /\ process_return(g, ret)
ProcessReturnDev ==
  \E g \in Groups : \E ret \in Results :
    (ret # "WAPI_OK" => SumFail < MaxFailDev) /\ process_return(g, ret)
AppSend == (trans_send_flag => ntxn < MaxSend) /\ m0804c_send("app")
AppSendNoResp == (trans_send_flag => ntxn < MaxSend) /\ m0804c_send_without_response("app")
AppSendData == wapi_send_data("app")
ModuleAnswers == \E f \in FramesDev : notify_isr_cb(f)

Next ==
  \/ HookStep /\ UNCHANGED lvars
  \/ ProcessReturnDev /\ UNCHANGED lvars
  \/ wapi_commu_init /\ UNCHANGED lvars
  \/ AppSend /\ UNCHANGED lvars
  \/ AppSendNoResp /\ UNCHANGED lvars
  \/ AppSendData /\ UNCHANGED lvars
  \/ SendTransRecord /\ UNCHANGED lvars
  \/ SendTimerStart /\ UNCHANGED lvars
  \/ SendReturn /\ UNCHANGED lvars
  \/ at_send_complete_isr_cb /\ UNCHANGED lvars
  \/ ModuleAnswers /\ UNCHANGED lvars
  \/ ParseThread /\ UNCHANGED lvars
  \/ check_connect_mode /\ UNCHANGED lvars
  \/ TimerTask /\ UNCHANGED lvars

Spec == Init /\ [][Next]_vars

\* the worker threads and the public API alone
NextGate ==
  \/ HookStep /\ UNCHANGED lvars
  \/ ProcessReturn /\ UNCHANGED lvars
  \/ m0804c_init /\ UNCHANGED lvars
  \/ m0804c_use_cert_conn /\ UNCHANGED lvars
  \/ m0804c_use_pwd_conn /\ UNCHANGED lvars

InitGate == InitCommon /\ track = "count"

SpecGate == InitGate /\ [][NextGate]_vars

\* ======================================================================
\*   SpecTable: generic_process / table_process run by two threads that
\*   share process_syn and the receive-state queue; the steps' AT traffic is
\*   reduced to the result the response parser queues
\* ======================================================================
wapi_process_use_cert == <<"wapi_check_cert", "wapi_connect_by_cert">>
wapi_process_disconn == <<"wapi_tcp_disconnect">>

wapi_process_upload_certiface ==
  <<"wapi_no_echo", "wapi_upload_as_cert", "wapi_upload_as_cert_file", "wapi_upload_asue_cert",
    "wapi_upload_asue_cert_file", "wapi_check_cert">>

\* connect_by_cert_process, disconn_process, cert_upload_process
process_table(t) ==
  IF t = "cert" THEN wapi_process_use_cert
  ELSE IF up.api = "m0804c_cert_upload" THEN wapi_process_upload_certiface
  ELSE wapi_process_disconn

tblframe == <<atvars, envvars, pvars, acall, trans_send_flag, wapi_conn_mode, wk, hist, ghvars>>

\* generic_process: first run of the table
generic_process(t) ==
  /\ tbl[t].pc = "idle"
  /\ tbl' = [tbl EXCEPT ![t] = [IdleTbl EXCEPT !.pc = "take", !.run = 1, !.i = 1]]
  /\ UNCHANGED <<tblframe, sem, recv_state_q>>

\* table_process, top of the step loop: pf_sema_take(process_syn, 0)
table_process_take(t) ==
  /\ tbl[t].pc = "take"
  /\ IF sem.process_syn = 1
     THEN /\ sem' = [sem EXCEPT !.process_syn = 0]
          /\ tbl' = [tbl EXCEPT ![t].pc = "call", ![t].j = 0, ![t].calls = 0, ![t].holds = TRUE]
     ELSE /\ tbl' = [tbl EXCEPT ![t].pc = "exit", ![t].why = "busy", ![t].j = 0, ![t].calls = 0]
          /\ UNCHANGED sem
  /\ UNCHANGED <<tblframe, recv_state_q>>

\* pf_wapi_process_fun of step i
table_process_call(t) ==
  /\ tbl[t].pc = "call"
  /\ tbl' = [tbl EXCEPT ![t].pc = "wait", ![t].calls = @ + 1]
  /\ UNCHANGED <<tblframe, sem, recv_state_q>>

\* variant: the retry loop runs once more
table_process_recv_one_more(t) ==
  /\ tbl[t].pc = "wait"
  /\ IF recv_state_q # <<>> /\ Head(recv_state_q).is_success
     THEN tbl' = [tbl EXCEPT ![t].pc = "cpl"]
     ELSE tbl' = [tbl EXCEPT ![t].j = @ + 1,
                             ![t].pc = IF tbl[t].j + 1 < AT_ERR_REPEAT_CNT + 1 THEN "call" ELSE "exit",
                             ![t].why = IF tbl[t].j + 1 < AT_ERR_REPEAT_CNT + 1 THEN "none" ELSE "retries"]
  /\ recv_state_q' = <<>>
  /\ UNCHANGED <<tblframe, sem>>

\* pf_os_queue_get(recv_state_queue, recv_timeout_tick): a queued result is
\* taken, an empty queue is the timeout; success leaves the retry loop, a
\* failure or a timeout ends attempt j
table_process_recv(t) ==
  /\ tbl[t].pc = "wait"
  /\ IF recv_state_q # <<>> /\ Head(recv_state_q).is_success
     THEN tbl' = [tbl EXCEPT ![t].pc = "cpl"]
     ELSE tbl' = [tbl EXCEPT ![t].j = @ + 1,
                             ![t].pc = IF tbl[t].j + 1 < AT_ERR_REPEAT_CNT THEN "call" ELSE "exit",
                             ![t].why = IF tbl[t].j + 1 < AT_ERR_REPEAT_CNT THEN "none" ELSE "retries"]
  /\ recv_state_q' = <<>>
  /\ UNCHANGED <<tblframe, sem>>

\* a successful step: pf_process_cpl(PROCESS_OK), the inter-step delay,
\* pf_sema_give(process_syn); a give that fails (the semaphore is already
\* at its maximum) goes to exit; after the last step table_process and
\* generic_process return WAPI_OK
table_process_give(t) ==
  /\ tbl[t].pc = "cpl"
  /\ IF sem.process_syn = 1
     THEN /\ tbl' = [tbl EXCEPT ![t].pc = "exit", ![t].why = "give"]
          /\ UNCHANGED sem
     ELSE /\ sem' = [sem EXCEPT !.process_syn = sema_give(@)]
          /\ tbl' = [tbl EXCEPT ![t] =
                       IF tbl[t].i < Len(process_table(t))
                       THEN [@ EXCEPT !.pc = "take", !.i = @ + 1, !.holds = FALSE, !.j = 0, !.calls = 0]
                       ELSE [@ EXCEPT !.pc = "done", !.ret = "WAPI_OK", !.holds = FALSE, !.j = 0,
                                      !.calls = 0]]
  /\ UNCHANGED <<tblframe, recv_state_q>>

\* exit: *err_index = i, pf_process_cpl(PROCESS_ERR), pf_sema_give(process_syn),
\* return WAPI_ERR_OTHERS; generic_process runs the table again or returns
table_process_exit(t) ==
  /\ tbl[t].pc = "exit"
  /\ sem' = [sem EXCEPT !.process_syn = sema_give(@)]
  /\ LET a == [err_index |-> tbl[t].i - 1, calls |-> tbl[t].calls, why |-> tbl[t].why]
     IN tbl' = [tbl EXCEPT ![t] =
                  IF tbl[t].run < WAPI_PROCESS_RETRY_MAX
                  THEN [@ EXCEPT !.pc = "take", !.run = @ + 1, !.i = 1, !.j = 0, !.calls = 0,
                                 !.holds = FALSE, !.why = "none", !.aborts = Append(@, a)]
                  ELSE [@ EXCEPT !.pc = "done", !.ret = "WAPI_ERR_OTHERS", !.j = 0, !.calls = 0,
                                 !.holds = FALSE, !.why = "none", !.aborts = Append(@, a)]]
  /\ UNCHANGED <<tblframe, recv_state_q>>

\* the caller of generic_process has its result
generic_process_return(t) ==
  /\ tbl[t].pc = "done"
  /\ tbl' = [tbl EXCEPT ![t] = IdleTbl]
  /\ UNCHANGED <<tblframe, sem, recv_state_q>>

FramesStep == {FrameOk, FrameJunk}

InitTable == InitCommon /\ track = "count"

GenericProcess == \E t \in TableThreads : generic_process(t)
TableTake == \E t \in TableThreads : table_process_take(t)
TableCall == \E t \in TableThreads : table_process_call(t)
TableRecv == \E t \in TableThreads : table_process_recv(t)
TableGive == \E t \in TableThreads : table_process_give(t)
TableExit == \E t \in TableThreads : table_process_exit(t)
GenericProcessReturn == \E t \in TableThreads : generic_process_return(t)

\* the response parser of a step's command queues the result of its match
StepResponse ==
  /\ \E t \in TableThreads : tbl[t].pc = "wait"
  /\ \E f \in FramesStep : at_recv_parse_base(f, "+OK")
  /\ UNCHANGED <<atvars, envvars, pvars, acall, trans_send_flag, wapi_conn_mode, sem, kvars, ghvars>>

NextTable ==
  \/ GenericProcess /\ UNCHANGED lvars
  \/ TableTake /\ UNCHANGED lvars
  \/ TableCall /\ UNCHANGED lvars
  \/ TableRecv /\ UNCHANGED lvars
  \/ TableGive /\ UNCHANGED lvars
  \/ TableExit /\ UNCHANGED lvars
  \/ GenericProcessReturn /\ UNCHANGED lvars
  \/ StepResponse /\ UNCHANGED lvars

SpecTable == InitTable /\ [][NextTable]_vars

\* ======================================================================
\*                         claims on the AT handler
\* ======================================================================

\* C1: at most one AT transaction is outstanding: between the acquisition of
\* the gate by a send and the completion of that transaction (last response
\* dispatched, or its timeout fired) no other send acquires the gate.
C1_OneOutstanding == Cardinality(open) <= 1

\* C2: whenever the gate is held it is eventually released, whether or not
\* the module ever responds.
C2_GateEventuallyReleased == (gate = 0) ~> (gate = 1)

\* the timeout callback is about to release a gate that is held, the record
\* of the send still queued and the module silent since that send
C2_Witness ==
  /\ gate = 0 /\ tpc.st = "cb"
  /\ send_queue = <<send_info>> /\ send_info.at_send_type = "SEND_CMD"
  /\ mod_owed = MaxResp /\ frame_q = <<>> /\ ppc = "wait"

\* C3: a well-formed send issued while the gate is held returns
\* AT_ERR_NOT_CONSUMED and leaves the pending-send record, the
\* remaining-receive counter and the gate as they were.
C3_RejectedSendKeepsRecord ==
  [][\A t \in Senders :
       ( /\ gate = 0
         /\ acall[t].pc = "idle" /\ acall'[t].pc # "idle"
         /\ acall'[t].ret \notin {"AT_ERR_CMD_NOT_FOUND", "AT_ERR_PARAM_INVALID"} )
       => /\ acall'[t].pc = "done"
          /\ acall'[t].ret = "AT_ERR_NOT_CONSUMED"
          /\ ~acall'[t].wrote
          /\ send_info' = send_info
          /\ remain' = remain
          /\ gate' = 0]_vars

\* a transparent send of the application task was rejected while the
\* command of a worker thread waits for its response
C3_Witness ==
  /\ acall["app"].pc = "done" /\ acall["app"].ret = "AT_ERR_NOT_CONSUMED"
  /\ gate = 0 /\ timer.st = "armed"
  /\ send_info.at_send_type = "SEND_CMD" /\ remain = 1

\* ======================================================================
\*                       claims on the device handler
\* ======================================================================

\* C4: a cert-auth or pwd-auth process runs only on a fresh init: while an
\* auth process is executing, the init group is not between its start hook
\* and its success (it has not passed its start gate since its last success
\* and its last process run did not fail).
C4_AuthOnlyAfterFreshInit ==
  \A g \in {"cert", "pwd"} :
    wk[g].phase = "run" =>
      ~(wk["init"].phase = "run" \/ wk["init"].i > 1 \/ wk["init"].fail_cnt > 0)

\* C5: when the callback of a data-path response finds "[ERR] Socket not in
\* use!", check_connect clears trans_send_flag and signals init_start, and
\* then signals the start gate of the auth mode that most recently succeeded
\* and no other auth gate.
C5_SocketErrorReconnects ==
  [][ /\ ( /\ ppc = "cb" /\ ppc' # "cb"
           /\ ploc.info.at_send_type = "SEND_TRANSPARENT"
           /\ ~parse_algo_invalid(ploc.info)
           /\ parse_algo_slot(ploc.info) \in {"check_connect", "send_recv_cb"}
           /\ find_substring_in_buffer(ploc.frame, SOCK_ERR) )
         => (ppc' = "cc_mode" /\ ~trans_send_flag' /\ sem'.init_start = 1)
      /\ (ppc = "cc_mode" /\ ppc' = "post" /\ hist.last_auth = "CONN_BY_CERT")
         => (sem'.use_cert = 1 /\ sem'.use_pwd = sem.use_pwd)
      /\ (ppc = "cc_mode" /\ ppc' = "post" /\ hist.last_auth = "CONN_BY_PWD")
         => (sem'.use_pwd = 1 /\ sem'.use_cert = sem.use_cert) ]_vars

\* C6: m0804c_send and m0804c_send_without_response called while
\* trans_send_flag is false return WAPI_ERR_SEND_NOT_READY and transmit
\* nothing; trans_send_flag turns true only in the step in which the connect
\* process returns success.
C6_SendNeedsReadyFlag ==
  [][ /\ \A t \in Callers :
          ( /\ ~trans_send_flag
            /\ acall[t].pc = "idle"
            /\ acall'[t].api \in {"m0804c_send", "m0804c_send_without_response"} )
          => /\ acall'[t].pc = "done"
             /\ acall'[t].ret = "WAPI_ERR_SEND_NOT_READY"
             /\ ~acall'[t].wrote
             /\ uart_tx' = uart_tx /\ send_buf' = send_buf /\ gate' = gate
      /\ (~trans_send_flag /\ trans_send_flag')
          => (wk["conn"].phase = "run" /\ wk'["conn"] = [phase |-> "start", i |-> 1, fail_cnt |-> 0]) ]_vars

\* a send is rejected after a socket error took the connection down: the one
\* transparent send went out while the flag was true, check_connect cleared it
C6_Witness ==
  /\ acall["app"].pc = "done" /\ acall["app"].ret = "WAPI_ERR_SEND_NOT_READY"
  /\ ~trans_send_flag /\ ntxn = 1 /\ hist.last_auth = "CONN_BY_CERT"

C10_ConnectOnlyAfterFreshAuth ==
  [][ /\ (wk["conn"].phase = "start" /\ wk'["conn"].phase = "run")
         => (sem.connect_cfg_success = 1 /\ sem'.connect_cfg_success = 0)
      /\ (~trans_send_flag /\ trans_send_flag') => hist.auth_fresh ]_vars

\* C7: a table run that gives up on a step for want of a good response has
\* called that step's function AT_ERR_REPEAT_CNT times and aborts with that
\* step's index; generic_process reports failure after
\* WAPI_PROCESS_RETRY_MAX table runs, so a step that failed both runs for
\* want of a response was called 4 x 2 = 8 times.
C7_BoundedRetry ==
  \A t \in TableThreads :
    /\ \A k \in 1..Len(tbl[t].aborts) :
         tbl[t].aborts[k].why = "retries" => tbl[t].aborts[k].calls = AT_ERR_REPEAT_CNT
    /\ (tbl[t].pc = "done" /\ tbl[t].ret # "WAPI_OK")
         => Len(tbl[t].aborts) = WAPI_PROCESS_RETRY_MAX
    /\ ( /\ tbl[t].pc = "done" /\ tbl[t].ret # "WAPI_OK"
         /\ \A k \in 1..Len(tbl[t].aborts) :
              /\ tbl[t].aborts[k].why = "retries"
              /\ tbl[t].aborts[k].err_index = tbl[t].aborts[1].err_index )
         => tbl[t].aborts[1].calls + tbl[t].aborts[2].calls = 8

\* connect_by_cert_process has failed: wapi_connect_by_cert (index 1) got no
\* good response in either table run
C7_Witness ==
  /\ tbl["cert"].pc = "done" /\ tbl["cert"].ret = "WAPI_ERR_OTHERS"
  /\ tbl["cert"].aborts = <<[err_index |-> 1, calls |-> 4, why |-> "retries"],
                            [err_index |-> 1, calls |-> 4, why |-> "retries"]>>

\* C9: at most one thread is between the acquisition of process_syn at the
\* start of a step and its release at the end of that step, and a
\* table_process whose acquisition failed aborts without calling the step's
\* function and without releasing process_syn.
C9_StepMutualExclusion ==
  [][ /\ Cardinality({t \in TableThreads : tbl'[t].holds}) <= 1
      /\ \A t \in TableThreads :
           (tbl[t].pc = "exit" /\ tbl[t].why = "busy" /\ tbl'[t] # tbl[t])
           => (tbl[t].calls = 0 /\ sem'.process_syn = sem.process_syn) ]_vars

\* ======================================================================
\*   SpecRing: the receive path of the UART protocol layer on its own.
\*   The DMA channel fills the ring buffer in circular mode, the IDLE
\*   interrupt calls notify_isr_cb, which hands the new region to the
\*   framing strategy.  Every received byte carries its serial number, so
\*   that the order of the bytes of a region can be read off.
\*   A queued frame holds the pointer of its payload (the buffer and the
\*   offset in it) and, as history, the bytes found there when it was queued.
\*   rx.nbytes, rx.since, rx.last and rx.delivered are history fields.
\* ======================================================================
devvars == <<atvars, envvars, pvars, acall, wvars, kvars, ghvars>>

BufSizes == 2..MaxBufSize
AlgoTypes == {"ALGO_TRANSPARENT", "ALGO_FUNCODE"}
\* a byte of memory nobody has written (parse_buf after MALLOC, or memory
\* behind the end of a buffer)
Garbage == -1

\* the n bytes found at addr = b + from  (offset 0 is element 1)
region(b, from, n) == [k \in 1..n |-> IF from + k <= Len(b) THEN b[from + k] ELSE Garbage]

\* memcpy(dest + at, src + from, n)
memcpy(dest, at, src, from, n) ==
  [k \in 1..Len(dest) |->
     IF k - 1 >= at /\ k - 1 < at + n
     THEN (IF from + (k - at) <= Len(src) THEN src[from + (k - at)] ELSE Garbage)
     ELSE dest[k]]

\* uart_proto_inst: counters cleared, parse_buf allocated, pf_uart_init arms
\* the DMA channel over the whole (zero-initialised, static) buffer
uart_proto_inst(n, algo) ==
  [buffer_size |-> n, algo_type |-> algo, recv_buf |-> [k \in 1..n |-> 0],
   parse_buf |-> [k \in 1..n |-> Garbage], cndtr |-> n, header |-> 0, tail |-> 0,
   data_counter |-> 0, parse_fail_count |-> 0, queue |-> <<>>, cur |-> <<>>, delivered |-> <<>>,
   nbytes |-> 0, since |-> 0, last |-> NoNotify, funcode |-> NoFuncode]

\* reset_rx_state: the four counters to zero, pf_set_counter(buffer_size)
reset_rx_state(r) ==
  [r EXCEPT !.parse_fail_count = 0, !.header = 0, !.tail = 0, !.data_counter = 0,
            !.cndtr = r.buffer_size, !.since = 0]

\* header - tail >= n on uint32_t: the counters of the model stay far below
\* 2^32, so the difference wraps exactly when header < tail, and is then
\* larger than any buffer size
u32_diff_at_least(header, tail, n) == header < tail \/ header - tail >= n

\* notify_isr_cb: the ring-buffer data range
previous_index(r) == r.tail % r.buffer_size
current_index(r) == (r.buffer_size - r.cndtr) % U16
ring_length(r) == (current_index(r) - previous_index(r) + r.buffer_size) % r.buffer_size

\* notify_isr_cb without the two-segment copy: the strategy always reads the
\* ring buffer in place
linearize_in_place(r) ==
  [parse_buf |-> r.parse_buf, parse_addr |-> region(r.recv_buf, previous_index(r), ring_length(r)),
   base |-> "recv_buf", off |-> previous_index(r)]

\* notify_isr_cb, "Linearize ring-buffer data" (NON_COPY_WHEN_NON_WRAP is
\* defined): parse_buf, and parse_addr as the buffer it points into, the
\* offset in it and the bytes the strategy finds there
linearize(r) ==
  LET p == previous_index(r)
      c == current_index(r)
      length == ring_length(r)
      wrapped == length > 0 /\ ~(p <= c \/ c = 0)
      length_part1 == r.buffer_size - p
      length_part2 == c
      buf1 == memcpy(r.parse_buf, 0, r.recv_buf, p, length_part1)
      buf2 == memcpy(buf1, length_part1, r.recv_buf, 0, length_part2)
  IN IF wrapped
     THEN [parse_buf |-> buf2, parse_addr |-> region(buf2, 0, length),
           base |-> "parse_buf", off |-> 0]
     ELSE [parse_buf |-> r.parse_buf, parse_addr |-> region(r.recv_buf, p, length),
           base |-> "recv_buf", off |-> p]

\* parse_transparent_mode: clear the failure count, queue the whole region
parse_transparent_mode(r, addr, length) ==
  [rx |-> [r EXCEPT !.parse_fail_count = 0,
                    !.queue = queue_put(@, [payload |-> addr.parse_addr, payload_length |-> length,
                                            base |-> addr.base, off |-> addr.off])],
   bytes_used |-> length]

\* parse_function_code_mode with the outcome of the caller's frame parser:
\* `used` bytes belong to complete frames, `ok` tells whether one of them
\* passed its checks and was queued; a hard parser error discards the rest
parse_function_code_mode(r, addr, length, used, ok, hard) ==
  [rx |-> IF ok
          THEN [r EXCEPT !.parse_fail_count = 0,
                         !.queue = queue_put(@, [payload |-> SubSeq(addr.parse_addr, 1, used),
                                                 payload_length |-> used,
                                                 base |-> addr.base, off |-> addr.off])]
          ELSE r,
   bytes_used |-> IF hard THEN length ELSE used]

\* notify_isr_cb
notify_isr_cb_bytes(r, used, ok, hard) ==
  LET n == r.buffer_size
      p == previous_index(r)
      c == current_index(r)
      length == ring_length(r)
      header1 == r.header + ((c - r.data_counter + n) % n)
      r1 == [r EXCEPT !.parse_fail_count = (@ + 1) % U16, !.header = header1]
      note == [seq |-> r.last.seq + 1, kind |-> "none", previous_index |-> p, current_index |-> c,
               length |-> length, parse_addr |-> <<>>, bytes_used |-> 0]
  IN IF header1 = r.tail
     THEN [r1 EXCEPT !.last = [note EXCEPT !.kind = "no_data"]]
     ELSE IF u32_diff_at_least(header1, r.tail, n)
     THEN [reset_rx_state(r1) EXCEPT !.last = [note EXCEPT !.kind = "overflow"]]
     ELSE LET lin == linearize(r1)
              r2 == [r1 EXCEPT !.data_counter = c, !.parse_buf = lin.parse_buf]
              res == IF r.algo_type = "ALGO_FUNCODE"
                     THEN parse_function_code_mode(r2, lin, length, used, ok, hard)
                     ELSE parse_transparent_mode(r2, lin, length)
              r3 == [res.rx EXCEPT !.tail = @ + res.bytes_used,
                                   !.since = IF res.bytes_used > 0 THEN 0 ELSE @]
              r4 == IF r3.parse_fail_count >= NUM_NOTIFY_ISR_CB_CALL THEN reset_rx_state(r3) ELSE r3
          IN [r4 EXCEPT !.last = [note EXCEPT !.kind = "parsed", !.parse_addr = lin.parse_addr,
                                              !.bytes_used = res.bytes_used]]

\* the DMA channel stores a received byte and counts down, reloading at 0
RingByte ==
  /\ rx.buffer_size > 0 /\ rx.nbytes < MaxBytes
  /\ rx' = [rx EXCEPT !.recv_buf[rx.buffer_size - rx.cndtr + 1] = rx.nbytes + 1,
                      !.cndtr = IF @ = 1 THEN rx.buffer_size ELSE @ - 1,
                      !.nbytes = @ + 1, !.since = @ + 1]
  /\ UNCHANGED <<devvars, not_rx>>

\* USART1_IRQHandler on the IDLE flag: at_notify_recv_isr_cb
RingNotify ==
  /\ rx.buffer_size > 0 /\ rx.last.seq < MaxNotify
  /\ \E used \in 0..ring_length(rx) : \E ok \in BOOLEAN : \E hard \in BOOLEAN :
       /\ rx.algo_type = "ALGO_TRANSPARENT" => (used = 0 /\ ~ok /\ ~hard)
       /\ ok => used > 0
       /\ rx' = notify_isr_cb_bytes(rx, used, ok, hard)
  /\ UNCHANGED <<devvars, not_rx>>

\* at_error_recv_isr_cb, at_reset_send_state
RingReset ==
  /\ rx.buffer_size > 0 /\ rx # reset_rx_state(rx)
  /\ rx' = reset_rx_state(rx)
  /\ UNCHANGED <<devvars, not_rx>>

\* the bytes behind the payload pointer of a frame
payload_bytes(r, pi) ==
  region(IF pi.base = "parse_buf" THEN r.parse_buf ELSE r.recv_buf, pi.off, pi.payload_length)

\* parse_thread takes a frame off the queue
RingParseThread ==
  /\ rx.queue # <<>> /\ rx.cur = <<>>
  /\ rx' = [rx EXCEPT !.queue = Tail(@), !.cur = <<Head(rx.queue)>>]
  /\ UNCHANGED <<devvars, not_rx>>

\* parse_thread: the handler of the frame (handle_transparent_parse or
\* handle_function_code_parse) reads the payload and returns
RingHandled ==
  /\ rx.cur # <<>>
  /\ rx' = [rx EXCEPT !.cur = <<>>, !.delivered = @ \o payload_bytes(rx, rx.cur[1])]
  /\ UNCHANGED <<devvars, not_rx>>

InitRing ==
  /\ InitBase /\ acall = [t \in Callers |-> IdleCall] /\ track = "off"
  /\ rx \in {uart_proto_inst(n, a) : n \in BufSizes, a \in AlgoTypes}
  /\ tx = IdleTx /\ fn = IdleFn /\ up = IdleUp

NextRing ==
  \/ RingByte
  \/ RingNotify
  \/ RingReset
  \/ RingParseThread
  \/ RingHandled

SpecRing == InitRing /\ [][NextRing]_vars

\* C11: the region notify_isr_cb hands to the framing strategy has length
\* (c - p) mod buffer_size, p the consumed position and c the DMA position,
\* and holds the ring-buffer bytes at p, p+1, ... (indices mod buffer_size)
\* in that order.
C11_RegionIsRingWindow ==
  [][ (rx'.last.seq # rx.last.seq /\ rx'.last.kind = "parsed")
      => LET n == rx.buffer_size
             p == rx.tail % n
             c == (n - rx.cndtr) % n
             a == rx'.last.parse_addr
         IN /\ rx'.last.length = (c - p) % n
            /\ Len(a) = rx'.last.length
            /\ \A k \in 1..Len(a) : a[k] = rx.recv_buf[((p + k - 1) % n) + 1] ]_vars

\* a region that wraps with bytes on both sides of the end of the buffer
C11_Witness ==
  /\ rx.last.kind = "parsed"
  /\ rx.last.current_index < rx.last.previous_index
  /\ rx.last.current_index >= 1
  /\ rx.last.length >= 2
  /\ rx.last.parse_addr[1] > 0 /\ rx.last.parse_addr[2] > 0

\* C12: a notification that finds the writer a whole buffer or more ahead of
\* the consumer resets header, tail, data_counter and parse_fail_count,
\* re-arms the DMA counter to buffer_size and queues no frame.
C12_LappedResets ==
  [][ (rx'.last.seq # rx.last.seq /\ rx.since >= rx.buffer_size)
      => /\ rx'.header = 0 /\ rx'.tail = 0 /\ rx'.data_counter = 0 /\ rx'.parse_fail_count = 0
         /\ rx'.cndtr = rx.buffer_size
         /\ rx'.queue = rx.queue ]_vars

\* ======================================================================
\*   SpecArgs: one thread sends commands of the table with one argument
\*   too few, the right number and one too many
\* ======================================================================
\* commands with 0, 1, 2 and 3 placeholders
ArgCmds == {"TEST", "SET_ECHO", "CONN_WAPI_BY_CERT", "CONN_WAPI_BY_PWD"}
ArgValues == {0, AT_CMD_END_MARKER}
ArgLists(k) == {[i \in 1..n |-> v] : n \in {m \in {k - 1, k, k + 1} : m >= 0}, v \in ArgValues}

SendCmdArgs ==
  \E f \in ArgCmds :
    \E args \in ArgLists(count_placeholder(m0804c_at_table[f].send)) :
      ntxn < MaxTxn /\ at_cmd_send_impl("init", f, args)

NextArgs ==
  \/ SendCmdArgs /\ UNCHANGED lvars
  \/ SendCmdRecord /\ UNCHANGED lvars
  \/ SendTimerStart /\ UNCHANGED lvars
  \/ SendReturn /\ UNCHANGED lvars
  \/ at_send_complete_isr_cb /\ UNCHANGED lvars
  \/ ModuleAnswersAT /\ UNCHANGED lvars
  \/ ParseThread /\ UNCHANGED lvars
  \/ TimerTask /\ UNCHANGED lvars

SpecArgs == InitATLive /\ [][NextArgs]_vars

cmd_format == <<65, 84, 43, 78, 83, 69, 78, 68, 44, 37, 100, 44, 49, 44>>
CR == 13
LF == 10

\* the decimal digits printed for %d, for a value of 0..99
decimal(v) == IF v < 10 THEN <<48 + v>> ELSE <<48 + (v \div 10), 48 + (v % 10)>>

\* the characters snprintf produces for a format with %d conversions of v
RECURSIVE format_d(_, _)
format_d(fmt, v) ==
  IF fmt = <<>> THEN <<>>
  ELSE IF Len(fmt) >= 2 /\ fmt[1] = 37 /\ fmt[2] = 100
  THEN decimal(v) \o format_d(SubSeq(fmt, 3, Len(fmt)), v)
  ELSE <<fmt[1]>> \o format_d(Tail(fmt), v)

\* snprintf(dest, size, fmt, v): at most size - 1 characters and the
\* terminator are stored; the result is the length of the whole output
snprintf(dest, size, fmt, v) ==
  LET out == format_d(fmt, v)
      kept == IF Len(out) < size THEN Len(out) ELSE size - 1
  IN [buf |-> [i \in 1..Len(dest) |-> IF i <= kept THEN out[i] ELSE IF i = kept + 1 THEN 0 ELSE dest[i]],
      len |-> Len(out)]

\* variant: lower-case digits
nibble_to_hex_char_lower(nibble) ==
  IF nibble < 10 THEN nibble + 48
  ELSE IF nibble < 16 THEN nibble + 97 - 10
  ELSE 72

nibble_to_hex_char(nibble) ==
  IF nibble < 10 THEN nibble + 48
  ELSE IF nibble < 16 THEN nibble + 65 - 10
  ELSE 72

\* variant: the low nibble of a byte is written before its high nibble
hex_string_pass_low_first(source, at, st) ==
  LET low == st.pos % 2 = 0
      nibble == IF low THEN source[st.byte_idx + 1] % 16 ELSE (source[st.byte_idx + 1] \div 16) % 16
  IN [dest |-> [st.dest EXCEPT ![at + st.pos + 1] = nibble_to_hex_char(nibble)],
      byte_idx |-> IF st.pos % 2 = 0 /\ st.byte_idx # 0 THEN st.byte_idx - 1 ELSE st.byte_idx,
      pos |-> IF st.pos = 0 THEN 0 ELSE st.pos - 1,
      done |-> st.pos = 0]

\* one pass of the while (1) loop of byte_array_to_hex_string: dest is the
\* buffer, at the index of dest[0] in it, pos (uint16_t) and byte_idx
\* (uint8_t) the loop variables, done set by the break
hex_string_pass(source, at, st) ==
  LET low == st.pos % 2 # 0
      nibble == IF low THEN source[st.byte_idx + 1] % 16 ELSE (source[st.byte_idx + 1] \div 16) % 16
  IN [dest |-> [st.dest EXCEPT ![at + st.pos + 1] = nibble_to_hex_char(nibble)],
      byte_idx |-> IF ~low /\ st.byte_idx # 0 THEN st.byte_idx - 1 ELSE st.byte_idx,
      pos |-> IF st.pos = 0 THEN 0 ELSE st.pos - 1,
      done |-> st.pos = 0]

RECURSIVE hex_string_loop(_, _, _)
hex_string_loop(source, at, st) ==
  IF st.done THEN st.dest ELSE hex_string_loop(source, at, hex_string_pass(source, at, st))

\* byte_array_to_hex_string(source, source_len, dest + at, &dest_len)
byte_array_to_hex_string(source, source_len, dest, at) ==
  [buf |-> hex_string_loop(source, at, [dest |-> dest, pos |-> (source_len * 2 - 1 + U16) % U16,
                                        byte_idx |-> (source_len - 1 + U8) % U8, done |-> FALSE]),
   dest_len |-> (source_len * 2) % U16]

\* wapi_send_data / wapi_send_data_without_response up to the call of
\* at_trans_send: the status of the checks and the buffer they leave
wapi_send_format(send_buf0, buf, length) ==
  IF length = 0
  THEN [status |-> "WAPI_ERR_PARAM_INVALID", buf |-> send_buf0, total_len |-> 0]
  ELSE LET cmd == snprintf(send_buf0, SEND_BUF_SIZE, cmd_format, CUR_SOCKET)
           command_len == cmd.len % U16
       IN IF command_len >= SEND_BUF_SIZE
          THEN [status |-> "WAPI_ERR_OTHERS", buf |-> cmd.buf, total_len |-> 0]
          ELSE LET hex == byte_array_to_hex_string(buf, length, cmd.buf, command_len)
                   total_len == (command_len + hex.dest_len + 2) % U16
               IN IF total_len > SEND_BUF_SIZE
                  THEN [status |-> "WAPI_ERR_OTHERS", buf |-> hex.buf, total_len |-> total_len]
                  ELSE [status |-> "WAPI_OK",
                        buf |-> [hex.buf EXCEPT ![total_len - 1] = CR, ![total_len] = LF],
                        total_len |-> total_len]

\* the payloads of the application: none, one byte, two bytes, the longest
\* that fits (56 bytes) and the shortest that does not (57 bytes)
LongestPayload == (SEND_BUF_SIZE - 13 - 2) \div 2
Payloads ==
  {<<>>, <<10>>, <<222, 173>>, [i \in 1..LongestPayload |-> (i * 37) % U8],
   [i \in 1..LongestPayload + 1 |-> 255]}

\* m0804c_send(self, buf, length, recv_parse_cb) with length = Len(buf)
m0804c_send_buf(t, buf) ==
  /\ m0804c_send(t)
  /\ tx' = IF trans_send_flag THEN [tx EXCEPT !.api = "m0804c_send", !.buf = buf, !.uart = <<>>] ELSE tx

\* m0804c_send_without_response(self, buf, length)
m0804c_send_without_response_buf(t, buf) ==
  /\ m0804c_send_without_response(t)
  /\ tx' = IF trans_send_flag
           THEN [tx EXCEPT !.api = "m0804c_send_without_response", !.buf = buf, !.uart = <<>>]
           ELSE tx

\* wapi_send_data / wapi_send_data_without_response with the payload
wapi_send_data_buf(t) ==
  /\ acall[t].pc = "wsend"
  /\ LET f == wapi_send_format(tx.wapi_send_buf, tx.buf, Len(tx.buf))
     IN /\ tx' = [tx EXCEPT !.wapi_send_buf = f.buf, !.len = f.total_len]
        /\ IF f.status = "WAPI_OK"
           THEN wapi_send_data(t)
           ELSE /\ acall' = [acall EXCEPT ![t] = [IdleCall EXCEPT !.pc = "done", !.api = acall[t].api,
                                                                  !.ret = f.status]]
                /\ UNCHANGED <<atvars, envvars, pvars, wvars, kvars, ghvars>>

\* at_trans_send after the acquisition, with pf_uart_write(data, len)
at_trans_send_record_buf(t) ==
  /\ at_trans_send_record(t)
  /\ tx' = IF acall'[t].wrote
           THEN [tx EXCEPT !.uart = Append(@, SubSeq(tx.wapi_send_buf, 1, tx.len))]
           ELSE tx

AppSendBuf == \E buf \in Payloads : (trans_send_flag => ntxn < MaxSend) /\ m0804c_send_buf("app", buf)
AppSendNoRespBuf ==
  \E buf \in Payloads : (trans_send_flag => ntxn < MaxSend) /\ m0804c_send_without_response_buf("app", buf)
AppSendDataBuf == wapi_send_data_buf("app")
AppSendRecordBuf == at_trans_send_record_buf("app")

NextSend ==
  \/ HookStep /\ UNCHANGED lvars
  \/ ProcessReturnDev /\ UNCHANGED lvars
  \/ wapi_commu_init /\ UNCHANGED lvars
  \/ AppSendBuf /\ UNCHANGED not_tx
  \/ AppSendNoRespBuf /\ UNCHANGED not_tx
  \/ AppSendDataBuf /\ UNCHANGED not_tx
  \/ AppSendRecordBuf /\ UNCHANGED not_tx
  \/ SendTimerStart /\ UNCHANGED lvars
  \/ SendReturn /\ UNCHANGED lvars
  \/ at_send_complete_isr_cb /\ UNCHANGED lvars
  \/ ModuleAnswers /\ UNCHANGED lvars
  \/ ParseThread /\ UNCHANGED lvars
  \/ check_connect_mode /\ UNCHANGED lvars
  \/ TimerTask /\ UNCHANGED lvars

SpecSend == Init /\ [][NextSend]_vars

\* the hexadecimal digits, by value
HexDigits == <<48, 49, 50, 51, 52, 53, 54, 55, 56, 57, 65, 66, 67, 68, 69, 70>>
\* two digits per byte, the high nibble first
HexOf(bytes) ==
  [k \in 1..2 * Len(bytes) |->
     IF k % 2 = 1 THEN HexDigits[(bytes[(k + 1) \div 2] \div 16) + 1] ELSE HexDigits[(bytes[k \div 2] % 16) + 1]]
\* "AT+NSEND,1,1," <hex> CR LF
Framed(bytes) == <<65, 84, 43, 78, 83, 69, 78, 68, 44, 49, 44, 49, 44>> \o HexOf(bytes) \o <<13, 10>>
Fits(bytes) == Len(bytes) >= 1 /\ 13 + 2 * Len(bytes) + 2 <= SEND_BUF_SIZE

\* C14: a send API called with the send-ready flag set, the gate free and a
\* payload of L >= 1 bytes that fits goes on to write; the write is the only
\* one of the call, its bytes are "AT+NSEND,1,1,", the 2L hex characters and
\* CR LF, and the pending send it records is a transparent send with two
\* response slots (check_connect, then send_recv_cb with the caller's
\* callback as argument) for m0804c_send and one slot (check_connect) for
\* m0804c_send_without_response
C14_SendFraming ==
  [][/\ (acall["app"].pc = "wsend" /\ gate = 1 /\ Fits(tx.buf) /\ acall'["app"] # acall["app"]) =>
          acall'["app"].pc = "rec"
     /\ (acall["app"].pc = "rec" /\ acall["app"].api = "trans" /\ tx.api # "none"
           /\ acall'["app"] # acall["app"]) =>
          /\ acall'["app"].wrote
          /\ tx'.uart = <<Framed(tx.buf)>>
          /\ send_info'.at_send_type = "SEND_TRANSPARENT"
          /\ send_info'.callback =
               (IF tx.api = "m0804c_send" THEN CbSendData ELSE CbSendNoResp)
          /\ remain' = (IF tx.api = "m0804c_send" THEN 2 ELSE 1)
     /\ Len(tx'.uart) <= 1
     /\ (Len(tx'.uart) = 1 => Fits(tx'.buf))]_vars

C14_Witness ==
  /\ tx.api = "m0804c_send_without_response" /\ Len(tx.buf) = LongestPayload
  /\ tx.uart = <<Framed(tx.buf)>> /\ Len(tx.uart[1]) = 127
  /\ remain = 1 /\ send_info.callback = CbSendNoResp


\* ======================================================================
\*   SpecHex: byte_array_to_hex_string on its own, called with a byte
\*   array and a destination that has one cell before and one after the
\*   2n cells the function is to fill
\* ======================================================================
HexBytes == {0, 9, 10, 15, 16, 127, 128, 154, 169, 173, 222, 255}
HexSources ==
  {<<a>> : a \in HexBytes} \cup {<<a, b>> : a \in HexBytes, b \in HexBytes}
  \cup {[i \in 1..LongestPayload |-> (i * 37) % U8]}

HexCall(source) ==
  [op |-> "call", source |-> source, source_len |-> Len(source),
   dest |-> [i \in 1..2 * Len(source) + 2 |-> Garbage], dest_len |-> Garbage]

\* byte_array_to_hex_string(source, source_len, dest + 1, &dest_len)
HexEncode ==
  /\ fn.op = "call"
  /\ LET h == byte_array_to_hex_string(fn.source, fn.source_len, fn.dest, 1)
     IN fn' = [fn EXCEPT !.op = "done", !.dest = h.buf, !.dest_len = h.dest_len]
  /\ UNCHANGED <<devvars, not_fn>>

InitHex ==
  /\ InitBase /\ acall = [t \in Callers |-> IdleCall] /\ track = "off"
  /\ rx = IdleRx /\ tx = IdleTx /\ up = IdleUp
  /\ fn \in {HexCall(source) : source \in HexSources}

NextHex == HexEncode

SpecHex == InitHex /\ [][NextHex]_vars

\* C16: for a byte array of n >= 1 bytes (n <= 56, what the send path
\* accepts) byte_array_to_hex_string reports dest_len = 2n and writes exactly
\* the 2n characters dest[0..2n-1]: dest[2i] is the upper-case hex digit of
\* the high nibble of source[i], dest[2i+1] that of its low nibble
C16_HexEncoding ==
  fn.op = "done" =>
    LET n == fn.source_len
    IN /\ fn.dest_len = 2 * n
       /\ \A i \in 0..n - 1 :
            /\ fn.dest[1 + 2 * i + 1] = HexDigits[(fn.source[i + 1] \div 16) + 1]
            /\ fn.dest[1 + 2 * i + 2] = HexDigits[(fn.source[i + 1] % 16) + 1]
       /\ fn.dest[1] = Garbage /\ fn.dest[2 * n + 2] = Garbage

\* {0xDE, 0xAD} has been encoded as "DEAD"
C16_Witness ==
  /\ fn.op = "done" /\ fn.source = <<222, 173>>
  /\ fn.dest = <<Garbage, 68, 69, 65, 68, Garbage>> /\ fn.dest_len = 4

\* ======================================================================
\*   SpecUpload: a certificate file operation of the upload table
\*   (wapi_upload_as_cert_file / wapi_upload_asue_cert_file) run by
\*   table_process in the thread of m0804c_cert_upload, with the AT
\*   handler, the module, the parse thread and the timer service task
\* ======================================================================
FileLens == {1, 63, 64, 65, 128, 129}

\* table_process calls the operation: wapi_upload_cert_file_common up to the
\* for statement
upload_cert_file_common(file_len) ==
  [up EXCEPT !.pc = "loop", !.file_len = file_len,
             !.cnt = ((file_len + SEG_LEN - 1) \div SEG_LEN) % U8,
             !.i = 0, !.run = @ + 1, !.timed_out = FALSE]

UploadCall ==
  /\ up.pc = "idle"
  /\ \E file_len \in FileLens : up' = upload_cert_file_common(file_len)
  /\ UNCHANGED <<devvars, not_up>>

\* the for statement: loop test, send_len, the parse callback, offset
UploadLoop ==
  /\ up.pc = "loop"
  /\ up' = IF up.i < up.cnt
           THEN LET last == up.cnt - 1 = up.i
                IN [up EXCEPT !.pc = "take", !.last = last,
                              !.send_len = IF last THEN (up.file_len % SEG_LEN) % U8 ELSE SEG_LEN,
                              !.offset = SEG_LEN * up.i]
           ELSE [up EXCEPT !.pc = "wait"]
  /\ UNCHANGED <<devvars, not_up>>

\* pf_sema_take(multi_send_syn_sema_handle, AT_TIMEOUT_TICK_STANDARD) returns 0
UploadTake ==
  /\ up.pc = "take" /\ sem.multi_send_syn = 1
  /\ sem' = [sem EXCEPT !.multi_send_syn = 0]
  /\ up' = [up EXCEPT !.pc = "call"]
  /\ UNCHANGED <<atvars, envvars, pvars, acall, trans_send_flag, wapi_conn_mode, recv_state_q,
                 kvars, ghvars, not_up>>

\* the take times out: multi_send_recv_timeout, break
UploadTimeout ==
  /\ up.pc = "take" /\ sem.multi_send_syn = 0
  /\ sem' = [sem EXCEPT !.multi_send_syn = sema_give(@)]
  /\ up' = [up EXCEPT !.pc = "wait", !.timed_out = TRUE]
  /\ UNCHANGED <<atvars, envvars, pvars, acall, trans_send_flag, wapi_conn_mode, recv_state_q,
                 kvars, ghvars, not_up>>

\* at_trans_send(file_payload + offset, send_len, &callback)
UploadSend ==
  /\ up.pc = "call"
  /\ at_trans_send("app", TRUE, IF up.last THEN CbLastSegment ELSE CbSegment)
  /\ up' = [up EXCEPT !.pc = "sending",
                      !.log = Append(@, [run |-> up.run, i |-> up.i, offset |-> up.offset,
                                         send_len |-> up.send_len, written |-> FALSE])]
  /\ UNCHANGED not_up

\* at_trans_send after the acquisition: pf_uart_write(data, len)
UploadRecord ==
  /\ up.pc = "sending"
  /\ at_trans_send_record("app")
  /\ up' = [up EXCEPT !.log[Len(up.log)].written = acall'["app"].wrote]
  /\ UNCHANGED not_up

\* at_trans_send returns, its result is dropped; i++
UploadReturn ==
  /\ up.pc = "sending"
  /\ at_send_return("app")
  /\ up' = [up EXCEPT !.pc = "loop", !.i = (@ + 1) % U8]
  /\ UNCHANGED not_up

\* table_process after the operation: pf_os_queue_get(recv_state_queue_handle)
\* returns a success report and the operation is complete, or it times out
\* and the operation is called again
UploadWait ==
  /\ up.pc = "wait"
  /\ IF recv_state_q # <<>>
     THEN /\ recv_state_q' = Tail(recv_state_q)
          /\ up' = IF Head(recv_state_q).is_success THEN [up EXCEPT !.pc = "complete"]
                   ELSE IF up.run < MaxRuns THEN upload_cert_file_common(up.file_len)
                   ELSE [up EXCEPT !.pc = "failed"]
     ELSE /\ up' = IF up.run < MaxRuns THEN upload_cert_file_common(up.file_len)
                   ELSE [up EXCEPT !.pc = "failed"]
          /\ UNCHANGED recv_state_q
  /\ UNCHANGED <<atvars, envvars, pvars, acall, trans_send_flag, wapi_conn_mode, sem,
                 kvars, ghvars, not_up>>

InitUpload == InitCommon /\ track = "off"

NextUpload ==
  \/ UploadCall
  \/ UploadLoop
  \/ UploadTake
  \/ UploadTimeout
  \/ UploadSend
  \/ UploadRecord
  \/ UploadReturn
  \/ UploadWait
  \/ at_send_timer_start("app") /\ UNCHANGED lvars
  \/ at_send_complete_isr_cb /\ UNCHANGED lvars
  \/ notify_isr_cb(FrameOk) /\ UNCHANGED lvars
  \/ ParseThread /\ UNCHANGED lvars
  \/ TimerTask /\ UNCHANGED lvars

SpecUpload == InitUpload /\ [][NextUpload]_vars

\* the segment sends issued by the invocation in progress
RunLog == SelectSeq(up.log, LAMBDA e : e.run = up.run)
RECURSIVE SumLen(_)
SumLen(log) == IF log = <<>> THEN 0 ELSE Head(log).send_len + SumLen(Tail(log))
CeilDiv(a, b) == (a + b - 1) \div b

\* C15: an invocation that ran its loop to the end for a file of L bytes has
\* issued ceil(L/64) segment sends, the k-th at offset 64k, each of length 64
\* except the last, whose length is L mod 64, or 64 when 64 divides L; the
\* lengths sum to L
C15_Segmentation ==
  (up.pc = "wait" /\ ~up.timed_out) =>
     LET n == CeilDiv(up.file_len, SEG_LEN)
     IN /\ Len(RunLog) = n
        /\ \A k \in 1..n :
             /\ RunLog[k].offset = SEG_LEN * (k - 1)
             /\ RunLog[k].send_len = IF k < n THEN SEG_LEN
                                     ELSE IF up.file_len % SEG_LEN = 0 THEN SEG_LEN
                                     ELSE up.file_len % SEG_LEN
        /\ SumLen(RunLog) = up.file_len

\* C19: a segment of the file is transmitted only when every segment before
\* it has been transmitted earlier in the execution, and after a take of the
\* per-segment semaphore that timed out the invocation sends nothing more
C19_UploadOrdering ==
  /\ \A k \in 1..Len(up.log) :
       up.log[k].written =>
         \A i \in 0..up.log[k].i - 1 : \E j \in 1..k - 1 : up.log[j].i = i /\ up.log[j].written
  /\ up.timed_out => up.pc \notin {"loop", "take", "call", "sending"}

\* ======================================================================
\*   SpecCertUpload: the application calls m0804c_cert_upload while a
\*   worker thread sends commands; the steps' AT traffic is reduced to the
\*   result the response parser queues, as in SpecTable
\* ======================================================================
\* variant: the transport state is reset before the record is looked at
m0804c_cert_upload_resets_first(exists) ==
  /\ up.api = "none" /\ tbl["app"].pc = "idle" /\ acall["app"].pc = "idle"
  /\ reset_wapi_state("app")
  /\ up' = IF ~exists
           THEN [up EXCEPT !.api = "m0804c_cert_upload", !.apc = "returned",
                           !.is_exist_certicate = exists, !.ret = "WAPI_ERR_MISS_CERT"]
           ELSE [up EXCEPT !.api = "m0804c_cert_upload", !.apc = "process",
                           !.is_exist_certicate = exists]
  /\ UNCHANGED not_up

\* m0804c_cert_upload up to the call of cert_upload_process; the data
\* provider's record has is_exist_certicate = exists
m0804c_cert_upload(exists) ==
  /\ up.api = "none" /\ tbl["app"].pc = "idle" /\ acall["app"].pc = "idle"
  /\ IF ~exists
     THEN /\ up' = [up EXCEPT !.api = "m0804c_cert_upload", !.apc = "returned",
                              !.is_exist_certicate = exists, !.ret = "WAPI_ERR_MISS_CERT"]
          /\ UNCHANGED devvars
     ELSE /\ reset_wapi_state("app")
          /\ up' = [up EXCEPT !.api = "m0804c_cert_upload", !.apc = "process",
                              !.is_exist_certicate = exists]
  /\ UNCHANGED not_up

\* cert_upload_process: generic_process on wapi_process_upload_certiface
cert_upload_process ==
  /\ up.apc = "process"
  /\ generic_process("app")
  /\ up' = [up EXCEPT !.apc = "running"]
  /\ UNCHANGED not_up

\* return cert_upload_process(self)
m0804c_cert_upload_return ==
  /\ up.apc = "running"
  /\ generic_process_return("app")
  /\ up' = [up EXCEPT !.apc = "returned", !.ret = tbl["app"].ret]
  /\ UNCHANGED not_up

CertUploadCall == \E exists \in BOOLEAN : m0804c_cert_upload(exists)
CertUploadTable ==
  /\ up.apc = "running"
  /\ \/ table_process_take("app")
     \/ table_process_call("app")
     \/ table_process_recv("app")
     \/ table_process_give("app")
     \/ table_process_exit("app")
WorkerSend == ntxn < MaxTxn /\ at_cmd_send_impl("init", "SET_ECHO", <<0>>)
WorkerSendSteps == at_cmd_send_record("init") \/ at_send_timer_start("init") \/ at_send_return("init")

InitCertUpload == InitCommon /\ track = "count"

NextCertUpload ==
  \/ CertUploadCall
  \/ cert_upload_process
  \/ CertUploadTable /\ UNCHANGED lvars
  \/ m0804c_cert_upload_return
  \/ StepResponse /\ UNCHANGED lvars
  \/ WorkerSend /\ UNCHANGED lvars
  \/ WorkerSendSteps /\ UNCHANGED lvars
  \/ at_send_complete_isr_cb /\ UNCHANGED lvars
  \/ TimerTask /\ UNCHANGED lvars

SpecCertUpload == InitCertUpload /\ [][NextCertUpload]_vars

\* C20: a call of m0804c_cert_upload whose record reports no certificate
\* returns WAPI_ERR_MISS_CERT and changes nothing: the gate is not released,
\* nothing is written to the UART, no step of the table is taken; a call
\* whose record reports a certificate releases the gate, then runs the upload
\* table in the calling thread until generic_process has a result, and
\* returns that result
C20_CertUpload ==
  [][/\ (up.api = "none" /\ up'.api = "m0804c_cert_upload") =>
          IF up'.is_exist_certicate
          THEN gate' = 1 /\ up'.apc = "process" /\ up'.ret = "none"
          ELSE up'.apc = "returned" /\ up'.ret = "WAPI_ERR_MISS_CERT" /\ UNCHANGED devvars
     /\ (up.apc = "process" /\ up'.apc # "process") =>
          up'.apc = "running" /\ tbl'["app"].pc = "take" /\ process_table("app")' = wapi_process_upload_certiface
     /\ (up.apc = "running" /\ up'.apc # "running") =>
          /\ tbl["app"].pc = "done" /\ tbl["app"].ret \in {"WAPI_OK", "WAPI_ERR_OTHERS"}
          /\ up'.apc = "returned" /\ up'.ret = tbl["app"].ret]_vars

\* the upload process has succeeded after the call released a gate that a
\* worker's command held
C20_Witness ==
  /\ up.api = "m0804c_cert_upload" /\ up.apc = "returned" /\ up.is_exist_certicate
  /\ up.ret = "WAPI_OK" /\ ntxn > 0

\* ======================================================================
\*   SpecFuncode: the function-code subscriber registry of the UART
\*   protocol layer: subscribe_funcode, unsubscribe_funcode and
\*   handle_function_code_parse on the sentinel list
\* ======================================================================
FunCodes == {1, 3, 5}
FrameCodes == {0, 3, 4, 5}
Callbacks == {"cb", "NULL"}

t_list_init(l, node) == [l EXCEPT !.next[node] = node, !.pre[node] = node]

t_list_insert_after(l, node, new) ==
  LET l1 == [l EXCEPT !.next[new] = l.next[node]]
      l2 == [l1 EXCEPT !.pre[l1.next[node]] = new]
      l3 == [l2 EXCEPT !.next[node] = new]
  IN [l3 EXCEPT !.pre[new] = node]

t_list_remove(l, node) ==
  LET l1 == [l EXCEPT !.next[l.pre[node]] = l.next[node]]
      l2 == [l1 EXCEPT !.pre[l1.next[node]] = l1.pre[node]]
  IN t_list_init(l2, node)

\* variant: node->pre is redirected before the old predecessor is linked
t_list_insert_before_pre_first(l, node, new) ==
  LET l1 == [l EXCEPT !.next[new] = node]
      l2 == [l1 EXCEPT !.pre[node] = new]
      l3 == [l2 EXCEPT !.next[l2.pre[node]] = new]
  IN [l3 EXCEPT !.pre[new] = l3.pre[node]]

t_list_insert_before(l, node, new) ==
  LET l1 == [l EXCEPT !.next[new] = node]
      l2 == [l1 EXCEPT !.next[l1.pre[node]] = new]
      l3 == [l2 EXCEPT !.pre[new] = l2.pre[node]]
  IN [l3 EXCEPT !.pre[node] = new]

t_list_is_empty(l, node) == l.next[node] = node

\* variant: the new node always goes right behind the sentinel
insert_position_head(l, current, fun_code) == 0

\* subscribe_funcode: the walk to the node the new one is inserted after
RECURSIVE insert_position(_, _, _)
insert_position(l, current, fun_code) ==
  IF l.next[current] = 0 THEN current
  ELSE IF l.node[l.next[current]].fun_code > fun_code THEN current
  ELSE insert_position(l, l.next[current], fun_code)

\* subscribe_funcode(self, {fun_code, cb}, &handle); MALLOC hands out a free node
subscribe_funcode(r, fun_code, cb, handle) ==
  IF r.algo_type # "ALGO_FUNCODE"
  THEN [r EXCEPT !.funcode.status = "UART_PROTO_ERR_ALGO_TYPE"]
  ELSE LET l0 == t_list_init([r.funcode EXCEPT !.node[handle] =
                                 [live |-> TRUE, fun_code |-> fun_code, cb |-> cb]], handle)
           current == insert_position(l0, 0, fun_code)
       IN [r EXCEPT !.funcode = [t_list_insert_after(l0, current, handle) EXCEPT !.status = "UART_PROTO_OK"]]

\* unsubscribe_funcode(self, handle): t_list_remove, FREE
unsubscribe_funcode(r, handle) ==
  IF r.algo_type # "ALGO_FUNCODE"
  THEN [r EXCEPT !.funcode.status = "UART_PROTO_ERR_ALGO_TYPE"]
  ELSE [r EXCEPT !.funcode = [t_list_remove(r.funcode, handle) EXCEPT !.node[handle] = NoNode,
                                                                     !.status = "UART_PROTO_OK"]]

\* handle_function_code_parse: the for loop from current on; the result is
\* the sequence of nodes whose callback is invoked
RECURSIVE function_code_walk(_, _, _)
function_code_walk(l, current, fun_code) ==
  IF current = 0 THEN <<>>
  ELSE IF l.node[current].fun_code > fun_code THEN <<>>
  ELSE (IF l.node[current].fun_code = fun_code /\ l.node[current].cb # "NULL"
        THEN <<[handle |-> current, cb |-> l.node[current].cb]>> ELSE <<>>)
       \o function_code_walk(l, l.next[current], fun_code)

handle_function_code_parse(r, fun_code) ==
  [r EXCEPT !.funcode.dispatched = fun_code,
            !.funcode.calls = function_code_walk(r.funcode, r.funcode.next[0], fun_code)]

Subscribe ==
  /\ rx.buffer_size > 0
  /\ \E fun_code \in FunCodes : \E cb \in Callbacks : \E handle \in 1..MaxNodes :
       /\ ~rx.funcode.node[handle].live
       /\ rx' = subscribe_funcode(rx, fun_code, cb, handle)
  /\ UNCHANGED <<devvars, not_rx>>

Unsubscribe ==
  /\ rx.buffer_size > 0
  /\ \E handle \in 1..MaxNodes :
       /\ rx.funcode.node[handle].live \/ rx.algo_type # "ALGO_FUNCODE"
       /\ rx' = unsubscribe_funcode(rx, handle)
  /\ UNCHANGED <<devvars, not_rx>>

\* parse_thread delivers a frame of function code fun_code
Dispatch ==
  /\ rx.buffer_size > 0 /\ rx.algo_type = "ALGO_FUNCODE"
  /\ \E fun_code \in FrameCodes : rx' = handle_function_code_parse(rx, fun_code)
  /\ UNCHANGED <<devvars, not_rx>>

InitFuncode ==
  /\ InitBase /\ acall = [t \in Callers |-> IdleCall] /\ track = "off"
  /\ rx \in {uart_proto_inst(MaxBufSize, a) : a \in AlgoTypes}
  /\ tx = IdleTx /\ fn = IdleFn /\ up = IdleUp

NextFuncode == Subscribe \/ Unsubscribe \/ Dispatch

SpecFuncode == InitFuncode /\ [][NextFuncode]_vars

\* the handles met when following next from the sentinel, at most k of them
RECURSIVE ListFrom(_, _, _)
ListFrom(l, current, k) ==
  IF current = 0 \/ k = 0 THEN <<>> ELSE <<current>> \o ListFrom(l, l.next[current], k - 1)
Subscribed(l) == {h \in 1..MaxNodes : l.node[h].live}

\* C17: after every sequence of subscribe and unsubscribe calls the list from
\* the sentinel holds exactly the subscribed nodes, each once, in ascending
\* order of function code; a dispatch for code c invokes exactly the
\* subscribed non-null callbacks of code c, each once, and nothing when no
\* subscriber has code c
C17_Registry ==
  [][LET l == rx'.funcode
         walk == ListFrom(l, l.next[0], MaxNodes + 1)
     IN /\ Len(walk) = Cardinality(Subscribed(l))
        /\ {walk[k] : k \in 1..Len(walk)} = Subscribed(l)
        /\ \A k \in 1..Len(walk) - 1 : l.node[walk[k]].fun_code <= l.node[walk[k + 1]].fun_code
        /\ \A k \in 1..Len(walk) : l.pre[walk[k]] = (IF k = 1 THEN 0 ELSE walk[k - 1])
        /\ (rx'.funcode.node = rx.funcode.node /\ rx' # rx /\ rx.algo_type = "ALGO_FUNCODE") =>
             LET calls == l.calls
                 due == {h \in Subscribed(l) : l.node[h].fun_code = l.dispatched /\ l.node[h].cb # "NULL"}
             IN /\ {calls[k].handle : k \in 1..Len(calls)} = due
                /\ Len(calls) = Cardinality(due)
                /\ \A k \in 1..Len(calls) : calls[k].cb = l.node[calls[k].handle].cb]_vars

\* codes 5, 1, 3 were subscribed in this order and a frame of code 3 was
\* delivered to the code-3 callback alone
C17_Witness ==
  /\ rx.funcode.node = <<[live |-> TRUE, fun_code |-> 5, cb |-> "cb"],
                         [live |-> TRUE, fun_code |-> 1, cb |-> "cb"],
                         [live |-> TRUE, fun_code |-> 3, cb |-> "cb"]>>
  /\ ListFrom(rx.funcode, rx.funcode.next[0], MaxNodes + 1) = <<2, 3, 1>>
  /\ rx.funcode.dispatched = 3 /\ rx.funcode.calls = <<[handle |-> 3, cb |-> "cb"]>>


\* ======================================================================
\*   SpecDigest: the integrity helpers of the configuration record, called
\*   by the application on a record it owns.  A record is the
\*   sizeof(wapi_info_t) bytes of its object representation, first byte at
\*   index 1: server_ip 1..4, server_port 5..6, local_port 7..8,
\*   is_exist_certicate 9, local_ip 10..13, local_ip_mask 14..17,
\*   local_gateway 18..21, ssid 22..53, pwd 54..69, one byte of padding 70,
\*   digest 71..72 (low byte first)
\* ======================================================================
\* the external checksum_16bit(buf, len) behind M0804C_DATA_INTEGRITY_ALGO:
\* the sum of the first len bytes of buf, kept to 16 bits
RECURSIVE checksum_16bit(_, _)
checksum_16bit(buf, len) ==
  IF len = 0 THEN 0 ELSE (checksum_16bit(buf, len - 1) + buf[len]) % U16

\* wapi_info->digest, read and written as a uint16_t
digest_field(wapi_info) ==
  wapi_info[SIZEOF_WAPI_INFO - 1] + U8 * wapi_info[SIZEOF_WAPI_INFO]

store_digest(wapi_info, digest) ==
  [wapi_info EXCEPT ![SIZEOF_WAPI_INFO - 1] = digest % U8,
                    ![SIZEOF_WAPI_INFO] = digest \div U8]

\* is_wapi_info_valid with a payload_len that stops one byte early
is_wapi_info_valid_short(wapi_info) ==
  LET payload_len == SIZEOF_WAPI_INFO - SIZEOF_DIGEST - 1
      digest_candidate == digest_field(wapi_info)
      digest == checksum_16bit(wapi_info, payload_len)
  IN digest_candidate = digest

is_wapi_info_valid(wapi_info) ==
  LET payload_len == SIZEOF_WAPI_INFO - SIZEOF_DIGEST
      digest_candidate == digest_field(wapi_info)
      digest == checksum_16bit(wapi_info, payload_len)
  IN digest_candidate = digest

validate_wapi_info(wapi_info) ==
  LET digest == checksum_16bit(wapi_info, SIZEOF_WAPI_INFO - SIZEOF_DIGEST)
  IN store_digest(wapi_info, digest)

\* the initializer of g_default_wapi_info: server 192.168.0.195:666, local
\* port 777, 192.168.0.66/255.255.255.0, gateway 192.168.0.4,
\* "WAPI-24G-8825", "123456abc", no certificate, everything else zero
g_default_wapi_info ==
  <<192, 168, 0, 195, 154, 2, 9, 3, 0,
    192, 168, 0, 66, 255, 255, 255, 0, 192, 168, 0, 4>>
  \o <<87, 65, 80, 73, 45, 50, 52, 71, 45, 56, 56, 50, 53>> \o [i \in 1..19 |-> 0]
  \o <<49, 50, 51, 52, 53, 54, 97, 98, 99>> \o [i \in 1..7 |-> 0]
  \o <<0, 0, 0>>

\* the record reset_wapi_info copies over the caller's
reset_wapi_info ==
  LET digest == checksum_16bit(g_default_wapi_info, SIZEOF_WAPI_INFO - SIZEOF_DIGEST)
  IN store_digest(g_default_wapi_info, digest)

\* values a byte of the record is changed to, and the records the
\* application starts from: the default before any digest was stamped,
\* all bytes 0 and all bytes 0xFF
EditValues == {0, 1, 255}
InfoRecords ==
  {g_default_wapi_info, [i \in 1..SIZEOF_WAPI_INFO |-> 0],
   [i \in 1..SIZEOF_WAPI_INFO |-> 255]}

DigestCall(wapi_info) ==
  [op |-> "none", wapi_info |-> wapi_info, stamp |-> "none", changed |-> 0,
   edits |-> 0, ret |-> FALSE]

\* the application writes one byte outside the digest field in place
EditInfo(pos, v) ==
  /\ fn.edits < MaxEdits
  /\ v # fn.wapi_info[pos]
  /\ fn' = [fn EXCEPT !.op = "edit", !.wapi_info[pos] = v,
                      !.changed = IF @ < 2 THEN @ + 1 ELSE @,
                      !.edits = @ + 1]
  /\ UNCHANGED <<devvars, not_fn>>

ValidateInfo ==
  /\ fn' = [fn EXCEPT !.op = "validate_wapi_info",
                      !.wapi_info = validate_wapi_info(@),
                      !.stamp = "validate_wapi_info", !.changed = 0]
  /\ UNCHANGED <<devvars, not_fn>>

ResetInfo ==
  /\ fn' = [fn EXCEPT !.op = "reset_wapi_info", !.wapi_info = reset_wapi_info,
                      !.stamp = "reset_wapi_info", !.changed = 0]
  /\ UNCHANGED <<devvars, not_fn>>

IsInfoValid ==
  /\ fn' = [fn EXCEPT !.op = "is_wapi_info_valid",
                      !.ret = is_wapi_info_valid(fn.wapi_info)]
  /\ UNCHANGED <<devvars, not_fn>>

InitDigest ==
  /\ InitBase /\ acall = [t \in Callers |-> IdleCall] /\ track = "off"
  /\ rx = IdleRx /\ tx = IdleTx /\ up = IdleUp
  /\ fn \in {DigestCall(wapi_info) : wapi_info \in InfoRecords}

NextDigest ==
  \/ \E pos \in 1..SIZEOF_WAPI_INFO - SIZEOF_DIGEST : \E v \in EditValues :
       EditInfo(pos, v)
  \/ ValidateInfo
  \/ ResetInfo
  \/ IsInfoValid

SpecDigest == InitDigest /\ [][NextDigest]_vars

InvokesCallback ==
  /\ ppc = "cb"
  /\ ploc.info.at_send_type \in {"SEND_CMD", "SEND_TRANSPARENT"}
  /\ ~parse_algo_invalid(ploc.info)
  /\ parse_algo_slot(ploc.info) # "NULL"

\* C21: every parse callback that response dispatch invokes is taken from
\* the descriptor of the most recent send that acquired the gate, and that
\* transaction has not completed or timed out
C21_DispatchToOriginator ==
  [][(InvokesCallback /\ ppc' # "cb") =>
       (ploc.info.txn = ntxn /\ ploc.info.txn \in open)]_vars

\* ======================================================================
\*            claims on the frames of the UART protocol layer
\* ======================================================================
\* the frames the worker thread has not finished with: queued, or taken off
\* the queue and not yet handled
PendingFrames == {rx.queue[k] : k \in 1..Len(rx.queue)} \cup {rx.cur[k] : k \in 1..Len(rx.cur)}

\* C22: a notification leaves the bytes of parse_buf behind the payload
\* pointer of every frame that is still queued or being handled as they were
C22_ScratchNotOverwritten ==
  [][(rx'.last.seq # rx.last.seq) =>
       \A pi \in PendingFrames :
         pi.base = "parse_buf" => payload_bytes(rx', pi) = payload_bytes(rx, pi)]_vars

\* C27: in transparent mode a notification that finds pending bytes queues
\* one frame with all of them and advances tail by their number, so that
\* header = tail and data_counter = tail mod buffer_size when it returns;
\* and the handler of a frame reads the bytes the frame was queued with, so
\* that every received byte reaches the callback once and in order
C27_TransparentLossless ==
  [][rx.algo_type = "ALGO_TRANSPARENT" =>
       /\ (rx'.last.seq # rx.last.seq /\ rx'.last.kind = "parsed") =>
            /\ Len(rx'.queue) = Len(rx.queue) + 1
            /\ rx'.queue[Len(rx'.queue)].payload = rx'.last.parse_addr
            /\ Len(rx'.last.parse_addr) = rx'.last.length
            /\ rx'.tail = rx.tail + rx'.last.length
            /\ rx'.header = rx'.tail
            /\ rx'.data_counter = rx'.tail % rx.buffer_size
       /\ (rx.cur # <<>> /\ rx'.cur = <<>>) =>
            rx'.delivered = rx.delivered \o rx.cur[1].payload]_vars

\* C28: a notification in function-code mode whose parser leaves bytes of an
\* incomplete trailing frame unconsumed advances tail by the consumed bytes
\* only and keeps the rest pending: header stays ahead of tail by the
\* unconsumed bytes and the DMA counter is not re-armed
C28_PartialFrameRetained ==
  [][(/\ rx.algo_type = "ALGO_FUNCODE"
      /\ rx'.last.seq # rx.last.seq /\ rx'.last.kind = "parsed"
      /\ rx'.last.bytes_used < rx'.last.length) =>
       /\ rx'.tail = rx.tail + rx'.last.bytes_used
       /\ rx'.header = rx.tail + rx'.last.length
       /\ rx'.cndtr = rx.cndtr]_vars

\* ======================================================================
\*   SpecSeg: the AT handler driven by one thread that sends commands
\*   (one response) and transparent data with one and two expected
\*   responses, one send after the other; nobody calls
\*   at_reset_send_state.  fn.count[t] counts the calls of at_parse_algo
\*   that found the descriptor of transaction t in the send-info queue
\*   (history).
\* ======================================================================
SegInputs == {<<TRUE, CbSendData>>, <<TRUE, CbSendNoResp>>}

SegSendCmd == ntxn < MaxTxn /\ at_cmd_send_impl("app", "SET_ECHO", <<0>>)
SegSendTrans == \E i \in SegInputs : ntxn < MaxTxn /\ acall["app"].pc = "idle" /\ at_trans_send("app", i[1], i[2])

SegGet ==
  /\ at_parse_algo_get
  /\ fn' = IF send_queue # <<>> THEN [fn EXCEPT !.count[Head(send_queue).txn] = @ + 1] ELSE fn
  /\ UNCHANGED not_fn

InitSeg ==
  /\ InitBase /\ acall = [t \in Callers |-> IdleCall] /\ track = "ids"
  /\ rx = IdleRx /\ tx = IdleTx /\ up = IdleUp
  /\ fn = [op |-> "at_parse_algo", count |-> [t \in 1..MaxTxn |-> 0]]

NextSeg ==
  \/ SegSendCmd /\ UNCHANGED lvars
  \/ SegSendTrans /\ UNCHANGED lvars
  \/ at_cmd_send_record("app") /\ UNCHANGED lvars
  \/ at_trans_send_record("app") /\ UNCHANGED lvars
  \/ at_send_timer_start("app") /\ UNCHANGED lvars
  \/ at_send_return("app") /\ UNCHANGED lvars
  \/ at_send_complete_isr_cb /\ UNCHANGED lvars
  \/ ModuleAnswersAT /\ UNCHANGED lvars
  \/ parse_thread /\ UNCHANGED lvars
  \/ SegGet
  \/ at_parse_algo_dispatch /\ UNCHANGED lvars
  \/ at_parse_algo_count /\ UNCHANGED lvars
  \/ at_parse_algo_release /\ UNCHANGED lvars
  \/ at_parse_algo_timer /\ UNCHANGED lvars
  \/ TimerTask /\ UNCHANGED lvars

SpecSeg == InitSeg /\ [][NextSeg]_vars

\* the configured receive count of a descriptor
receive_count_of(info) ==
  IF info.at_send_type = "SEND_CMD" THEN m0804c_at_table[info.cmd_entry].receive_count
  ELSE info.callback.receive_count

\* C23: for a transaction that has not timed out, the k-th call of
\* at_parse_algo for it selects parse-callback slot k-1; after each of the
\* first n-1 the descriptor is queued again and the timer started with the
\* gate held; after the n-th the timer is stopped and the gate, still held
\* by this transaction, is released
C23_SegmentDispatch ==
  [][LET info == ploc.info
         k == fn.count[info.txn]
     IN /\ (ppc = "cb" /\ ppc' # "cb" /\ info.txn \in open) =>
             /\ ~parse_algo_invalid(info)
             /\ parse_algo_index(info) = k - 1
        /\ (ppc = "post" /\ ppc' # "post" /\ info.txn \in open) =>
             IF k < receive_count_of(info)
             THEN send_queue' = <<info>> /\ ppc' = "tstart" /\ gate = 0 /\ ntxn = info.txn
             ELSE timer'.st = "idle" /\ ppc' = "rel"
        /\ (ppc = "tstart" /\ ppc' # "tstart" /\ info.txn \in open) =>
             timer'.st = "armed" /\ gate' = 0 /\ ntxn = info.txn
        /\ (ppc = "rel" /\ ppc' # "rel" /\ info.txn # 0) =>
             gate = 0 /\ gate' = 1 /\ ntxn = info.txn]_vars

\* ======================================================================
\*  SpecStep: one step of a process table with the AT handler under it and
\*  the durations of the timeouts.  Time is kept as the ticks left on each
\*  running timeout; a thread that is ready runs before time advances.
\*  fn holds the step, the countdowns and the history of the attempt.
\* ======================================================================
AT_TIMEOUT_TICK == 500
TRANSPARANT_TIMEOUT_TICK == 2000
AT_TIMEOUT_TICK_STANDARD == 500
AT_TIMEOUT_TICK_LONG == 30000
AT_INTERVAL_TICK == 1000

\* the step functions: the command each sends and its arguments (a string
\* argument is its address)
step_command ==
  [ wapi_no_echo                  |-> <<"SET_ECHO", <<0>>>>,
    wapi_check_link_layer_connect |-> <<"CHECK_LINK_LAYER", <<>>>>,
    wapi_tcp_connect              |-> <<"TCP_UDP_CONN", <<1, 192, 168, 1, 1, 8080, 8081, 1, 1, 1, 2, CUR_SOCKET>>>>,
    wapi_recv_data                |-> <<"RECV_DATA", <<CUR_SOCKET, 1, 1>>>>,
    wapi_tcp_disconnect           |-> <<"DISCONN_SOCKET", <<CUR_SOCKET>>>>,
    wapi_both_2p4_5g              |-> <<"SET_BAND", <<3>>>>,
    wapi_set_tx_pwr               |-> <<"SET_TX_PWR", <<>>>>,
    wapi_disable_low_pwr          |-> <<"SET_LOW_PWR", <<0>>>>,
    wapi_disconn_transect         |-> <<"DISCONN_TRANS", <<>>>>,
    wapi_set_net_config           |-> <<"SET_IP", <<1, 192, 168, 1, 10, 255, 255, 255, 0, 192, 168, 1, 1>>>>,
    wapi_check_cert               |-> <<"CHECK_CERT", <<>>>>,
    wapi_connect_by_cert          |-> <<"CONN_WAPI_BY_CERT", <<0, 1>>>>,
    wapi_connect_by_pwd           |-> <<"CONN_WAPI_BY_PWD", <<0, 1, 1>>>> ]

\* rows of wapi_process_init, wapi_process_conn_net and wapi_process_disconn;
\* `connected` tells whether the table runs while the link is in use
StepRows ==
  { [fun |-> "wapi_no_echo", recv_timeout_tick |-> 2 * AT_TIMEOUT_TICK_STANDARD,
     process_interval_tick |-> 0, connected |-> FALSE],
    [fun |-> "wapi_check_link_layer_connect", recv_timeout_tick |-> 5 * AT_TIMEOUT_TICK_STANDARD,
     process_interval_tick |-> 3 * AT_INTERVAL_TICK, connected |-> FALSE],
    [fun |-> "wapi_tcp_connect", recv_timeout_tick |-> AT_TIMEOUT_TICK_LONG,
     process_interval_tick |-> 0, connected |-> FALSE],
    [fun |-> "wapi_recv_data", recv_timeout_tick |-> AT_TIMEOUT_TICK_STANDARD,
     process_interval_tick |-> 0, connected |-> FALSE],
    [fun |-> "wapi_tcp_disconnect", recv_timeout_tick |-> AT_TIMEOUT_TICK_STANDARD,
     process_interval_tick |-> 0, connected |-> TRUE] }

\* the literal the parse callback of the step's command searches for
step_pattern(row) == ParsePattern[m0804c_at_table[step_command[row.fun][1]].pf_at_recv_parse[1]]
\* the module's answers: without the literal, with it
FramesTimed(row) == {FrameJunk, {step_pattern(row)}}

Min2(a, b) == IF a < b THEN a ELSE b
Elapse(left, d) == IF left > d THEN left - d ELSE 0

\* table_process: the retry loop calls pf_wapi_process_fun
StepFun ==
  /\ tbl["cert"].pc = "call"
  /\ tbl' = [tbl EXCEPT !["cert"].pc = "fun", !["cert"].calls = @ + 1]
  /\ fn' = [fn EXCEPT !.sent = FALSE, !.frames = 0, !.after_timeout = tbl["cert"].why = "timeout"]
  /\ UNCHANGED <<atvars, envvars, pvars, acall, wvars, wk, hist, ghvars, not_fn>>

\* the step function: AT_CMD_SEND -> at_cmd_send_impl
StepSendCmd ==
  /\ tbl["cert"].pc = "fun" /\ acall["init"].pc = "idle"
  /\ at_cmd_send_impl("init", step_command[fn.step.fun][1], step_command[fn.step.fun][2])
  /\ fn' = [fn EXCEPT !.rejected = @ \/ (gate = 0 /\ fn.after_timeout)]
  /\ UNCHANGED not_fn

\* TIMER_START(self, AT_TIMEOUT_TICK) / TIMER_START(self, TRANSPARANT_TIMEOUT_TICK)
StepTimerStart(t) ==
  /\ at_send_timer_start(t)
  /\ fn' = [fn EXCEPT !.timer_left = IF acall[t].api = "cmd" THEN AT_TIMEOUT_TICK
                                      ELSE TRANSPARANT_TIMEOUT_TICK]
  /\ UNCHANGED not_fn

\* the step function has returned: pf_os_queue_get(recv_state_queue_handle,
\* &wapi_recv_state, recv_timeout_tick) starts to wait
StepWait ==
  /\ tbl["cert"].pc = "fun" /\ acall["init"].pc = "done"
  /\ acall' = [acall EXCEPT !["init"] = IdleCall]
  /\ tbl' = [tbl EXCEPT !["cert"].pc = "wait"]
  /\ fn' = [fn EXCEPT !.wait_left = fn.step.recv_timeout_tick]
  /\ UNCHANGED <<atvars, envvars, pvars, wvars, wk, hist, ghvars, not_fn>>

\* the end of attempt j: the next attempt, or the step has failed
step_next_attempt(why) ==
  [tbl EXCEPT !["cert"].j = @ + 1, !["cert"].why = why,
              !["cert"].pc = IF tbl["cert"].j + 1 < AT_ERR_REPEAT_CNT THEN "call" ELSE "exit"]

\* pf_os_queue_get returns a result: success ends the step, a failure
\* delays by process_interval_tick when the row has one
StepRecv ==
  /\ tbl["cert"].pc = "wait" /\ recv_state_q # <<>>
  /\ recv_state_q' = Tail(recv_state_q)
  /\ IF Head(recv_state_q).is_success
     THEN tbl' = [tbl EXCEPT !["cert"].pc = "cpl"] /\ UNCHANGED fn
     ELSE IF fn.step.process_interval_tick # 0
     THEN /\ tbl' = [tbl EXCEPT !["cert"].pc = "delay"]
          /\ fn' = [fn EXCEPT !.wait_left = fn.step.process_interval_tick]
     ELSE tbl' = step_next_attempt("result") /\ UNCHANGED fn
  /\ UNCHANGED <<atvars, envvars, pvars, acall, trans_send_flag, wapi_conn_mode, sem, wk, hist,
                 ghvars, not_fn>>

\* pf_os_queue_get times out
StepTimeout ==
  /\ tbl["cert"].pc = "wait" /\ recv_state_q = <<>> /\ fn.wait_left = 0
  /\ tbl' = step_next_attempt("timeout")
  /\ UNCHANGED <<atvars, envvars, pvars, acall, wvars, wk, hist, ghvars, lvars>>

\* pf_os_delay_ms(process_interval_tick) after a failure result is over
StepDelayOver ==
  /\ tbl["cert"].pc = "delay" /\ fn.wait_left = 0
  /\ tbl' = step_next_attempt("result")
  /\ UNCHANGED <<atvars, envvars, pvars, acall, wvars, wk, hist, ghvars, lvars>>

\* an application thread's transparent send before m0804c_disconn is called
StepAppSend ==
  /\ fn.step.connected /\ tbl["cert"].calls = 0 /\ ~fn.app_sent
  /\ at_trans_send("app", TRUE, CbSendNoResp)
  /\ fn' = [fn EXCEPT !.app_sent = TRUE]
  /\ UNCHANGED not_fn

\* the TX-complete interrupt; the step's command is with the module
StepSendComplete ==
  /\ at_send_complete_isr_cb
  /\ fn' = IF send_info.at_send_type = "SEND_CMD" /\ tbl["cert"].pc \in {"fun", "wait"}
           THEN [fn EXCEPT !.sent = TRUE, !.frames = 0] ELSE fn
  /\ UNCHANGED not_fn

\* parse_thread takes a frame
StepParseThread ==
  /\ parse_thread
  /\ fn' = [fn EXCEPT !.frames = IF @ < 2 THEN @ + 1 ELSE @]
  /\ UNCHANGED not_fn

\* the one-shot timer expires after its period
StepTimerExpire == fn.timer_left = 0 /\ timer_expire /\ UNCHANGED lvars

\* every thread is blocked and no timeout is due
StepAllBlocked ==
  /\ \A t \in Callers : acall[t].pc = "idle"
  /\ tbl["cert"].pc \in {"wait", "delay", "cpl", "exit"}
  /\ ppc = "wait" /\ frame_q = <<>> /\ uart_tx = 0 /\ tpc.st = "idle"
  /\ ~(timer.st = "armed" /\ fn.timer_left = 0)
  /\ tbl["cert"].pc \in {"wait", "delay"} => fn.wait_left > 0
  /\ tbl["cert"].pc = "wait" => recv_state_q = <<>>

\* time advances by at most TickStep, up to the next timeout that is due
StepTick ==
  /\ StepAllBlocked
  /\ timer.st = "armed" \/ tbl["cert"].pc \in {"wait", "delay"}
  /\ LET t1 == IF timer.st = "armed" THEN fn.timer_left ELSE TickStep
         t2 == IF tbl["cert"].pc \in {"wait", "delay"} THEN fn.wait_left ELSE TickStep
         d == Min2(TickStep, Min2(t1, t2))
     IN fn' = [fn EXCEPT !.timer_left = IF timer.st = "armed" THEN Elapse(@, d) ELSE 0,
                         !.wait_left = IF tbl["cert"].pc \in {"wait", "delay"} THEN Elapse(@, d) ELSE 0]
  /\ UNCHANGED <<devvars, not_fn>>

InitStep ==
  /\ InitBase /\ acall = [t \in Callers |-> IdleCall]
  /\ rx = IdleRx /\ tx = IdleTx /\ up = IdleUp
  /\ track = "off"
  /\ \E row \in StepRows :
       fn = [op |-> "table_process", step |-> row, timer_left |-> 0, wait_left |-> 0,
             sent |-> FALSE, frames |-> 0, after_timeout |-> FALSE, rejected |-> FALSE,
             app_sent |-> FALSE]

\* table_process enters the retry loop of the step
StepStart ==
  /\ tbl["cert"].pc = "idle" /\ \A t \in Callers : acall[t].pc = "idle"
  /\ tbl' = [tbl EXCEPT !["cert"] = [IdleTbl EXCEPT !.pc = "call", !.i = 1]]
  /\ UNCHANGED <<atvars, envvars, pvars, acall, wvars, wk, hist, ghvars, lvars>>

NextStep ==
  \/ StepStart
  \/ StepFun
  \/ StepSendCmd
  \/ at_cmd_send_record("init") /\ UNCHANGED lvars
  \/ at_trans_send_record("app") /\ UNCHANGED lvars
  \/ \E t \in Callers : StepTimerStart(t)
  \/ at_send_return("app") /\ UNCHANGED lvars
  \/ StepWait
  \/ StepRecv
  \/ StepTimeout
  \/ StepDelayOver
  \/ StepAppSend
  \/ StepSendComplete
  \/ (\E f \in FramesTimed(fn.step) : notify_isr_cb(f)) /\ UNCHANGED lvars
  \/ StepParseThread
  \/ at_parse_algo_get /\ UNCHANGED lvars
  \/ at_parse_algo_dispatch /\ UNCHANGED lvars
  \/ at_parse_algo_count /\ UNCHANGED lvars
  \/ at_parse_algo_release /\ UNCHANGED lvars
  \/ StepTimerExpire
  \/ timeout_callback /\ UNCHANGED lvars
  \/ StepTick

SpecStep == InitStep /\ [][NextStep]_vars

\* ======================================================================
\*                 claims on the timing of a process step
\* ======================================================================

\* the first frame since the step's command went out is with the parser
\* while table_process still waits for the result of that attempt, and it
\* holds the literal the command's parse callback looks for
MatchingResponseInTime ==
  /\ tbl["cert"].pc = "wait" /\ fn.wait_left > 0 /\ recv_state_q = <<>>
  /\ fn.sent /\ fn.frames = 1
  /\ find_substring_in_buffer(ploc.frame, step_pattern(fn.step))

\* C24: a matching response that arrives before the step's receive timeout
\* has elapsed since the command was transmitted is dispatched to the parse
\* callback of the step's command, and the callback reports success to
\* table_process.
C24_ReceiveTimeoutHonoured ==
  [][/\ (ppc = "algo" /\ ppc' # "algo" /\ MatchingResponseInTime) =>
          /\ ppc' = "cb"
          /\ ploc'.info.at_send_type = "SEND_CMD"
          /\ ploc'.info.cmd_entry = step_command[fn.step.fun][1]
     /\ (ppc = "cb" /\ ppc' # "cb" /\ MatchingResponseInTime) =>
          recv_state_q' = <<[is_success |-> TRUE]>>]_vars

\* C25: when the wait of table_process on the receive-state queue has timed
\* out, the step function called for the next attempt finds the AT gate
\* free: its at_cmd_send_impl acquires the gate and goes on to the UART
\* write, it is not rejected with AT_ERR_NOT_CONSUMED.
C25_RetryRetransmits ==
  [][(tbl["cert"].pc = "fun" /\ fn.after_timeout /\ acall["init"].pc = "idle"
        /\ acall'["init"] # acall["init"]) =>
       /\ gate = 1
       /\ acall'["init"].pc = "rec"
       /\ acall'["init"].ret # "AT_ERR_NOT_CONSUMED"]_vars

\* ======================================================================
\*  SpecWorker: the worker threads and the public API, with the outcome of
\*  each process run recorded in fn: per group, the failures answered with a
\*  retry since the last success or error callback, and the last outcome
\* ======================================================================
process_outcome(g, ret) ==
  IF ret = "WAPI_OK" THEN "success"
  ELSE IF wk[g].fail_cnt < WAPI_PROCESS_FAIL_MAX THEN "retry" ELSE "error"

\* generic_wapi_thread after process_fn returned
WorkerReturn ==
  \E g \in Groups : \E ret \in Results :
    /\ ret # "WAPI_OK" => SumFail < MaxFail
    /\ process_return(g, ret)
    /\ fn' = [fn EXCEPT !.last[g] = process_outcome(g, ret),
                        !.retried[g] = IF process_outcome(g, ret) = "retry" THEN @ + 1 ELSE 0]
    /\ UNCHANGED not_fn

InitWorker ==
  /\ InitBase /\ acall = [t \in Callers |-> IdleCall]
  /\ rx = IdleRx /\ tx = IdleTx /\ up = IdleUp
  /\ track = "count"
  /\ fn = [op |-> "generic_wapi_thread", retried |-> [g \in Groups |-> 0],
           last |-> [g \in Groups |-> "none"]]

NextWorker ==
  \/ HookStep /\ UNCHANGED lvars
  \/ WorkerReturn
  \/ m0804c_init /\ UNCHANGED lvars
  \/ m0804c_use_cert_conn /\ UNCHANGED lvars
  \/ m0804c_use_pwd_conn /\ UNCHANGED lvars

SpecWorker == InitWorker /\ [][NextWorker]_vars

\* C26: a failed process run is answered with the group's retry hook while
\* fewer than WAPI_PROCESS_FAIL_MAX failures have been retried since the
\* group's last success or error callback, and with the error callback once
\* that many have; a success resets the failure count.
C26_FailureAccounting ==
  [][\A g \in Groups :
       (wk[g].phase = "run" /\ wk'[g].phase = "start") =>
         /\ fn'.last[g] = "success" => wk'[g].fail_cnt = 0
         /\ fn'.last[g] = "retry" => fn.retried[g] < WAPI_PROCESS_FAIL_MAX
         /\ fn'.last[g] = "error" => fn.retried[g] = WAPI_PROCESS_FAIL_MAX]_vars

\* ======================================================================
\*  SpecTrans: SpecAT with every kind of callback descriptor handed to
\*  at_trans_send
\* ======================================================================
\* descriptors with a null slot: the second of two, the first
CbNullSecond == [receive_count |-> 2, pf_at_recv_parse |-> <<"check_connect", "NULL">>, arg |-> "NULL"]
CbNullFirst == [receive_count |-> 1, pf_at_recv_parse |-> <<"NULL", "check_connect">>, arg |-> "NULL"]
TransDescriptors ==
  {<<TRUE, CbSendNoResp>>, <<FALSE, NoCallback>>, <<TRUE, CbTooMany>>, <<TRUE, CbNullSecond>>,
   <<TRUE, CbNullFirst>>}

SendTransAny ==
  \E i \in TransDescriptors :
    ntxn < MaxTxn /\ acall["app"].pc = "idle" /\ at_trans_send("app", i[1], i[2])

NextTrans ==
  \/ SendCmd /\ UNCHANGED lvars
  \/ SendTransAny /\ UNCHANGED lvars
  \/ SendCmdRecord /\ UNCHANGED lvars
  \/ SendTransRecord /\ UNCHANGED lvars
  \/ SendTimerStart /\ UNCHANGED lvars
  \/ SendReturn /\ UNCHANGED lvars
  \/ ResetState /\ UNCHANGED lvars
  \/ at_send_complete_isr_cb /\ UNCHANGED lvars
  \/ ModuleAnswersAT /\ UNCHANGED lvars
  \/ parse_thread /\ UNCHANGED lvars
  \/ at_parse_algo_get /\ UNCHANGED lvars
  \/ at_parse_algo_dispatch /\ UNCHANGED lvars
  \/ at_parse_algo_count /\ UNCHANGED lvars
  \/ at_parse_algo_release /\ UNCHANGED lvars
  \/ TimerTask /\ UNCHANGED lvars

SpecTrans == InitAT /\ [][NextTrans]_vars

osal_enter_critical_adapter(primask) == [token |-> primask, PRIMASK |-> 1]

\* osal_exit_critical_adapter(primask): interrupts are enabled when the
\* token is 0
osal_exit_critical_adapter(token, primask) == IF token = 0 THEN 0 ELSE primask

\* the token the operation hands to pf_os_exit_critical: notify_isr_cb keeps
\* the one pf_os_enter_critical returned, subscribe_funcode and
\* unsubscribe_funcode drop it and pass 0
exit_critical_token(operation, enter_token) ==
  IF operation = "notify_isr_cb" THEN enter_token ELSE 0

\* the operation called with PRIMASK as it is; `entered` tells whether the
\* call got as far as its critical section
critical_section(operation, entered) ==
  LET e == osal_enter_critical_adapter(fn.PRIMASK)
      x == exit_critical_token(operation, e.token)
  IN IF entered
     THEN [op |-> operation, before |-> fn.PRIMASK, entered |-> TRUE, enter_token |-> e.token,
           exit_token |-> x, PRIMASK |-> osal_exit_critical_adapter(x, e.PRIMASK)]
     ELSE [op |-> operation, before |-> fn.PRIMASK, entered |-> FALSE, enter_token |-> 0,
           exit_token |-> 0, PRIMASK |-> fn.PRIMASK]

CritSubscribe ==
  /\ \E fun_code \in FunCodes : \E cb \in Callbacks : \E handle \in 1..MaxNodes :
       /\ ~rx.funcode.node[handle].live
       /\ rx' = subscribe_funcode(rx, fun_code, cb, handle)
  /\ fn' = critical_section("subscribe_funcode", rx.algo_type = "ALGO_FUNCODE")
  /\ UNCHANGED <<devvars, tx, up>>

CritUnsubscribe ==
  /\ \E handle \in 1..MaxNodes :
       /\ rx.funcode.node[handle].live \/ rx.algo_type # "ALGO_FUNCODE"
       /\ rx' = unsubscribe_funcode(rx, handle)
  /\ fn' = critical_section("unsubscribe_funcode", rx.algo_type = "ALGO_FUNCODE")
  /\ UNCHANGED <<devvars, tx, up>>

CritNotify ==
  /\ rx.last.seq < MaxCalls
  /\ \E used \in 0..ring_length(rx) : \E ok \in BOOLEAN : \E hard \in BOOLEAN :
       /\ rx.algo_type = "ALGO_TRANSPARENT" => (used = 0 /\ ~ok /\ ~hard)
       /\ ok => used > 0
       /\ rx' = notify_isr_cb_bytes(rx, used, ok, hard)
  /\ fn' = critical_section("notify_isr_cb", TRUE)
  /\ UNCHANGED <<devvars, tx, up>>

CritByte == rx.nbytes < MaxCalls /\ RingByte

\* the caller masks or unmasks interrupts: __disable_irq, __enable_irq
DisableIrq ==
  /\ fn' = [fn EXCEPT !.op = "__disable_irq", !.before = fn.PRIMASK, !.entered = FALSE,
                      !.enter_token = 0, !.exit_token = 0, !.PRIMASK = 1]
  /\ UNCHANGED <<devvars, not_fn>>

EnableIrq ==
  /\ fn' = [fn EXCEPT !.op = "__enable_irq", !.before = fn.PRIMASK, !.entered = FALSE,
                      !.enter_token = 0, !.exit_token = 0, !.PRIMASK = 0]
  /\ UNCHANGED <<devvars, not_fn>>

InitCritical ==
  /\ InitBase /\ acall = [t \in Callers |-> IdleCall] /\ track = "off"
  /\ rx \in {uart_proto_inst(n, a) : n \in BufSizes, a \in AlgoTypes}
  /\ tx = IdleTx /\ up = IdleUp
  /\ fn = [op |-> "none", before |-> 0, entered |-> FALSE, enter_token |-> 0, exit_token |-> 0,
           PRIMASK |-> 0]

NextCritical ==
  \/ CritSubscribe
  \/ CritUnsubscribe
  \/ CritNotify
  \/ CritByte
  \/ DisableIrq
  \/ EnableIrq

SpecCritical == InitCritical /\ [][NextCritical]_vars

\* C30: an operation of the UART protocol layer that entered a critical
\* section left it with the token its enter call returned, and PRIMASK after
\* the operation is PRIMASK as it was at the call.
C30_CriticalPairing ==
  (fn.op \in {"notify_isr_cb", "subscribe_funcode", "unsubscribe_funcode"} /\ fn.entered) =>
    /\ fn.exit_token = fn.enter_token
    /\ fn.PRIMASK = fn.before

\* ======================================================================
\*  SpecList: the intrusive list on its own.  fn holds the links of the
\*  sentinel (0) and of MaxNodes nodes, the nodes inserted and not removed,
\*  the nodes removed, and the last call.
\* ======================================================================
ListNodes == 1..MaxNodes

ListInsertAfter ==
  \E node \in fn.linked \cup {0} : \E new \in ListNodes \ fn.linked :
    fn' = [t_list_insert_after(fn, node, new) EXCEPT
             !.linked = @ \cup {new}, !.removed = @ \ {new},
             !.last = [op |-> "t_list_insert_after", node |-> node, new |-> new]]

ListInsertBefore ==
  \E node \in fn.linked \cup {0} : \E new \in ListNodes \ fn.linked :
    fn' = [t_list_insert_before(fn, node, new) EXCEPT
             !.linked = @ \cup {new}, !.removed = @ \ {new},
             !.last = [op |-> "t_list_insert_before", node |-> node, new |-> new]]

ListRemove ==
  \E node \in fn.linked :
    fn' = [t_list_remove(fn, node) EXCEPT
             !.linked = @ \ {node}, !.removed = @ \cup {node},
             !.last = [op |-> "t_list_remove", node |-> node, new |-> node]]

\* t_list_init on the sentinel; a node that was never linked holds whatever
\* its allocation left in it
InitList ==
  /\ InitBase /\ acall = [t \in Callers |-> IdleCall] /\ track = "off"
  /\ rx = IdleRx /\ tx = IdleTx /\ up = IdleUp
  /\ \E nx \in [ListNodes -> 0..MaxNodes] : \E pr \in [ListNodes -> 0..MaxNodes] :
       fn = t_list_init([op |-> "t_list", next |-> [h \in 0..MaxNodes |-> IF h = 0 THEN 0 ELSE nx[h]],
                         pre |-> [h \in 0..MaxNodes |-> IF h = 0 THEN 0 ELSE pr[h]],
                         linked |-> {}, removed |-> {},
                         last |-> [op |-> "t_list_init", node |-> 0, new |-> 0]], 0)

NextList ==
  \/ ListInsertAfter /\ UNCHANGED <<devvars, not_fn>>
  \/ ListInsertBefore /\ UNCHANGED <<devvars, not_fn>>
  \/ ListRemove /\ UNCHANGED <<devvars, not_fn>>

SpecList == InitList /\ [][NextList]_vars

\* the nodes met when following next from the sentinel
ListReachable == {ListFrom(fn, fn.next[0], MaxNodes + 1)[i] :
                    i \in 1..Len(ListFrom(fn, fn.next[0], MaxNodes + 1))}

\* C31: every node on the ring from the sentinel has n.next.pre = n and
\* n.pre.next = n, the ring holds exactly the nodes inserted and not yet
\* removed, a removed node is a singleton, and t_list_is_empty(sentinel)
\* tells that no node is linked.
C31_ListRing ==
  /\ \A n \in ListReachable \cup {0} : fn.pre[fn.next[n]] = n /\ fn.next[fn.pre[n]] = n
  /\ ListReachable = fn.linked
  /\ \A n \in fn.removed : fn.next[n] = n /\ fn.pre[n] = n
  /\ t_list_is_empty(fn, 0) <=> fn.linked = {}

\* two nodes are linked, the last by t_list_insert_before in front of the
\* other, and a third has been removed
C31_Witness ==
  /\ fn.last.op = "t_list_insert_before" /\ fn.last.node # 0
  /\ Cardinality(fn.linked) = 2 /\ fn.removed # {}
  /\ fn.next[0] = fn.last.new /\ fn.next[fn.last.new] = fn.last.node

\* ======================================================================
\*                   claims on the callback slot of a dispatch
\* ======================================================================

\* at_parse_algo has passed its index check and takes the callback from
\* slot parse_algo_index of the descriptor it dequeued
TakesSlot ==
  /\ ppc = "cb"
  /\ ploc.info.at_send_type \in {"SEND_CMD", "SEND_TRANSPARENT"}
  /\ ~parse_algo_invalid(ploc.info)

\* C32: the slot index at_parse_algo uses on the callback array of the
\* descriptor it dequeued is strictly less than the descriptor's receive
\* count, for command and for transparent events, also when the
\* transaction of the descriptor has finished (remain_receive_count = 0).
C32_SlotIndexInRange ==
  TakesSlot => parse_algo_index(ploc.info) < receive_count_of(ploc.info)

\* ======================================================================
\*            claims on the result a process step consumes
\* ======================================================================

\* table_process is about to run the function of a step for one attempt:
\* the retry loop of a command step, the certificate file operation
StepFunctionCalled ==
  \/ tbl["cert"].pc = "call"
  \/ up.pc = "loop" /\ up.i = 0

\* C33: table_process takes from the receive-state queue only a result of
\* the response to a transmission of the attempt it waits for: when the
\* function of a step is called for an attempt, before it has transmitted
\* anything, the queue holds no result of an earlier transmission for the
\* pf_os_queue_get of the attempt to return.
C33_NoStaleResult == StepFunctionCalled => recv_state_q = <<>>

\* ======================================================================
\*  SpecInst: m0804c_inst in the creating thread and the first statements
\*  of the threads it creates.  fn holds the position of the creator, the
\*  is_inited flags of the UART protocol object and of the device, the
\*  result of m0804c_inst and the state of each created thread.
\* ======================================================================
InstWorkers == <<"use_cert", "use_pwd", "wapi_init", "wapi_conn">>
InstThreads == {"parse_thread"} \cup {InstWorkers[k] : k \in 1..Len(InstWorkers)}

\* uart_proto_inst (called by at_inst): pf_os_thread_create("parse_thread"),
\* its result is not looked at
uart_proto_inst_thread ==
  /\ fn.op = "m0804c_inst" /\ fn.pc = "up_thread"
  /\ \E created \in BOOLEAN :
       fn' = [fn EXCEPT !.pc = "up_flag",
                        !.thread["parse_thread"] = IF created THEN "ready" ELSE "none"]
  /\ UNCHANGED <<devvars, not_fn>>

\* uart_proto_inst: PRIV_DATA(self)->is_inited = true
uart_proto_inst_ready ==
  /\ fn.op = "m0804c_inst" /\ fn.pc = "up_flag"
  /\ fn' = [fn EXCEPT !.pc = "worker", !.up_is_inited = TRUE]
  /\ UNCHANGED <<devvars, not_fn>>

\* m0804c_inst: pf_os_thread_create of the next worker thread; a failure
\* frees the private data and returns WAPI_ERR_OTHERS
m0804c_inst_thread ==
  /\ fn.op = "m0804c_inst" /\ fn.pc = "worker"
  /\ \E created \in BOOLEAN :
       fn' = IF created
             THEN [fn EXCEPT !.thread[InstWorkers[fn.k]] = "ready",
                             !.k = @ + 1,
                             !.pc = IF fn.k = Len(InstWorkers) THEN "flag" ELSE "worker"]
             ELSE [fn EXCEPT !.pc = "done", !.ret = "WAPI_ERR_OTHERS", !.freed = TRUE]
  /\ UNCHANGED <<devvars, not_fn>>

\* m0804c_inst: PRIV_DATA(self)->is_inited = true; return WAPI_OK
m0804c_inst_ready ==
  /\ fn.op = "m0804c_inst" /\ fn.pc = "flag"
  /\ fn' = [fn EXCEPT !.pc = "done", !.is_inited = TRUE, !.ret = "WAPI_OK"]
  /\ UNCHANGED <<devvars, not_fn>>

\* the scheduler runs a created thread for the first time: the entry
\* function returns unless the is_inited flag of its object is set, else it
\* enters its loop.  After the private data has been freed the flag read is a
\* read of freed memory and yields either value.
thread_entry(th) ==
  /\ fn.op = "m0804c_inst" /\ fn.thread[th] = "ready"
  /\ \E flag \in BOOLEAN :
       /\ IF th = "parse_thread" THEN flag = fn.up_is_inited
          ELSE fn.freed \/ flag = fn.is_inited
       /\ fn' = [fn EXCEPT !.thread[th] = IF flag THEN "loop" ELSE "exited"]
  /\ UNCHANGED <<devvars, not_fn>>

InitInst ==
  /\ InitBase /\ acall = [t \in Callers |-> IdleCall] /\ track = "off"
  /\ rx = IdleRx /\ tx = IdleTx /\ up = IdleUp
  /\ fn = [op |-> "m0804c_inst", pc |-> "up_thread", k |-> 1, up_is_inited |-> FALSE,
           is_inited |-> FALSE, freed |-> FALSE, ret |-> "none",
           thread |-> [th \in InstThreads |-> "none"]]

NextInst ==
  \/ uart_proto_inst_thread
  \/ uart_proto_inst_ready
  \/ m0804c_inst_thread
  \/ m0804c_inst_ready
  \/ \E th \in InstThreads : thread_entry(th)

SpecInst == InitInst /\ [][NextInst]_vars

\* C34: once m0804c_inst has returned WAPI_OK no thread it created (the
\* four worker threads, the parse thread of the UART protocol) has returned
\* from its entry function: each is in its forever loop or still to be run
\* for the first time, however the scheduler interleaved them with the
\* creating thread.
C34_ThreadsAlive ==
  (fn.op = "m0804c_inst" /\ fn.ret = "WAPI_OK") =>
     \A th \in InstThreads : fn.thread[th] \in {"ready", "loop"}

\* ======================================================================
\*  SpecFrame: wapi_send_data / wapi_send_data_without_response up to the
\*  call of at_trans_send, for payloads of every length up to
\*  MaxPayloadLen, one pass of the hex loop per step.  fn holds the local
\*  variables, the send buffer (cells 0..127, kept as buf[1..128]) and the
\*  cells that have been written, counted from 0.
\* ======================================================================
FramePayload(length) == [i \in 1..length |-> (i * 37) % U8]

\* snprintf(wapi_send_buf, SEND_BUF_SIZE, cmd_format, CUR_SOCKET), the check
\* of command_len, and the entry of byte_array_to_hex_string
FrameFormat ==
  /\ fn.op = "wapi_send_data" /\ fn.pc = "call"
  /\ LET cmd == snprintf(fn.buf, SEND_BUF_SIZE, cmd_format, CUR_SOCKET)
         command_len == cmd.len % U16
     IN fn' = IF command_len >= SEND_BUF_SIZE
              THEN [fn EXCEPT !.pc = "done", !.status = "WAPI_ERR_OTHERS", !.buf = cmd.buf]
              ELSE [fn EXCEPT !.pc = "hex", !.buf = cmd.buf, !.command_len = command_len,
                              !.cells = 0..command_len,
                              !.pos = (fn.length * 2 - 1 + U16) % U16,
                              !.byte_idx = (fn.length - 1 + U8) % U8]
  /\ UNCHANGED <<devvars, not_fn>>

\* byte_array_to_hex_string: one pass of while (1), dest[pos] is cell
\* command_len + pos of the send buffer
FrameHexPass ==
  /\ fn.op = "wapi_send_data" /\ fn.pc = "hex"
  /\ LET st == hex_string_pass(FramePayload(fn.length), fn.command_len,
                               [dest |-> fn.buf, pos |-> fn.pos, byte_idx |-> fn.byte_idx,
                                done |-> FALSE])
     IN fn' = [fn EXCEPT !.buf = st.dest, !.pos = st.pos, !.byte_idx = st.byte_idx,
                         !.cells = @ \cup {fn.command_len + fn.pos},
                         !.pc = IF st.done THEN "check" ELSE "hex",
                         !.hex_len = IF st.done THEN (fn.length * 2) % U16 ELSE @]
  /\ UNCHANGED <<devvars, not_fn>>

\* total_len = command_len + hex_len + 2, the check against SEND_BUF_SIZE,
\* CR LF
FrameCheck ==
  /\ fn.op = "wapi_send_data" /\ fn.pc = "check"
  /\ LET total_len == (fn.command_len + fn.hex_len + 2) % U16
     IN fn' = IF total_len > SEND_BUF_SIZE
              THEN [fn EXCEPT !.pc = "done", !.status = "WAPI_ERR_OTHERS", !.total_len = total_len]
              ELSE [fn EXCEPT !.pc = "done", !.status = "WAPI_OK", !.total_len = total_len,
                              !.buf = [fn.buf EXCEPT ![total_len - 1] = CR, ![total_len] = LF],
                              !.cells = @ \cup {total_len - 2, total_len - 1}]
  /\ UNCHANGED <<devvars, not_fn>>

FrameCall(api, length) ==
  [op |-> "wapi_send_data", api |-> api, length |-> length, pc |-> "call", status |-> "none",
   buf |-> [i \in 1..SEND_BUF_SIZE |-> 0], command_len |-> 0, hex_len |-> 0, total_len |-> 0,
   pos |-> 0, byte_idx |-> 0, cells |-> {}]

InitFrame ==
  /\ InitBase /\ acall = [t \in Callers |-> IdleCall] /\ track = "off"
  /\ rx = IdleRx /\ tx = IdleTx /\ up = IdleUp
  /\ \E length \in 1..MaxPayloadLen, api \in {"wapi_send_data", "wapi_send_data_without_response"} :
       fn = FrameCall(api, length)

NextFrame == FrameFormat \/ FrameHexPass \/ FrameCheck

SpecFrame == InitFrame /\ [][NextFrame]_vars

\* C35: for a payload of any length >= 1 the send path writes only cells
\* 0..127 of the send buffer: either the frame (prefix, two hex characters
\* per byte, CR LF) fits and is written, or the call returns WAPI_ERR_OTHERS
\* and no cell at or beyond 128 has been written.
C35_SendBufferBounds ==
  fn.op = "wapi_send_data" =>
    /\ \A c \in fn.cells : c < SEND_BUF_SIZE
    /\ fn.pc = "done" =>
         \/ /\ fn.status = "WAPI_OK"
            /\ SubSeq(fn.buf, 1, fn.total_len) = Framed(FramePayload(fn.length))
         \/ fn.status = "WAPI_ERR_OTHERS" /\ ~Fits(FramePayload(fn.length))

\* ======================================================================
\*                   claims on the send-ready flag
\* ======================================================================

\* a worker thread is inside the init process or an auth process: the
\* module is being initialised or authenticated
ModuleBeingSetUp == \E g \in {"init", "cert", "pwd"} : wk[g].phase = "run"

\* C36: the send-ready flag is false from the moment the init group begins
\* an init run until the next successful network-connect process: while the
\* init process or an auth process runs, trans_send_flag is false and the
\* send APIs transmit nothing.
C36_FlagFollowsConnection == ModuleBeingSetUp => ~trans_send_flag

\* ======================================================================
\*                 claims on the send-format buffer
\* ======================================================================

\* C37: a call of at_cmd_send_impl that returns an error (AT_ERR_NOT_CONSUMED
\* or any other) leaves the handler's send-format buffer as it was before
\* the call: the bytes a transmission in flight may still be reading are
\* not changed.
C37_RejectedSendKeepsBuffer ==
  [][\A t \in Callers :
       (acall[t].pc = "idle" /\ acall'[t].pc = "done" /\ acall'[t].api = "cmd"
          /\ acall'[t].ret # "AT_OK") => send_buf' = send_buf]_vars

\* ======================================================================
\*  SpecHappy: the worker threads, the process tables with the AT handler
\*  under them, and a module that answers every command with the response
\*  its parse callback looks for, before any timeout elapses.  The worker
\*  whose process function runs is fn.g, its table run is tbl["cert"], its
\*  sends are those of caller "init"; fn.succeeded lists the groups whose
\*  process returned WAPI_OK, in order.
\* ======================================================================
Row(fun, recv, interval) ==
  [fun |-> fun, recv_timeout_tick |-> recv, process_interval_tick |-> interval, connected |-> FALSE]

\* wapi_process_init, wapi_process_use_cert, wapi_process_use_pwd,
\* wapi_process_conn_net with their timeouts
HappyTables ==
  [ init |-> << Row("wapi_no_echo", 2 * AT_TIMEOUT_TICK_STANDARD, 0),
                Row("wapi_both_2p4_5g", AT_TIMEOUT_TICK_STANDARD, 0),
                Row("wapi_set_tx_pwr", AT_TIMEOUT_TICK_STANDARD, 0),
                Row("wapi_disable_low_pwr", AT_TIMEOUT_TICK_STANDARD, 0),
                Row("wapi_disconn_transect", AT_TIMEOUT_TICK_STANDARD, 0),
                Row("wapi_set_net_config", AT_TIMEOUT_TICK_STANDARD, 0) >>,
    cert |-> << Row("wapi_check_cert", AT_TIMEOUT_TICK_STANDARD, 0),
                Row("wapi_connect_by_cert", AT_TIMEOUT_TICK_STANDARD, 5 * AT_INTERVAL_TICK) >>,
    pwd  |-> << Row("wapi_connect_by_pwd", AT_TIMEOUT_TICK_STANDARD, 5 * AT_INTERVAL_TICK) >>,
    conn |-> << Row("wapi_check_link_layer_connect", 5 * AT_TIMEOUT_TICK_STANDARD, 3 * AT_INTERVAL_TICK),
                Row("wapi_tcp_connect", AT_TIMEOUT_TICK_LONG, 0),
                Row("wapi_recv_data", AT_TIMEOUT_TICK_STANDARD, 0) >> ]

\* a worker thread can pass the operation of its start hook it stands at
HookReady(g) ==
  /\ wk[g].phase = "start"
  /\ LET o == process_callbacks[g].start[wk[g].i]
     IN o.op = "take" => sem[o.arg] = 1

\* the parse thread and the timer service task are blocked, nothing is on
\* the wire, and no timeout of the AT handler is pending (one that is
\* pending elapses during the delay)
HappyQuiet ==
  /\ ppc = "wait" /\ frame_q = <<>> /\ uart_tx = 0 /\ tpc.st = "idle" /\ timer.st = "idle"
  /\ mod_owed # MaxResp

\* the application: m0804c_init, then m0804c_use_cert_conn or
\* m0804c_use_pwd_conn
HappyInit ==
  /\ fn.boot = "init" /\ m0804c_init
  /\ fn' = [fn EXCEPT !.boot = "auth"]
  /\ UNCHANGED not_fn

HappyAuth ==
  /\ fn.boot = "auth"
  /\ IF fn.auth = "cert" THEN m0804c_use_cert_conn ELSE m0804c_use_pwd_conn
  /\ fn' = [fn EXCEPT !.boot = "done"]
  /\ UNCHANGED not_fn

\* generic_wapi_thread calls process_fn: generic_process, table_process
HappyStart ==
  /\ fn.g = "none"
  /\ \E g \in Groups :
       /\ wk[g].phase = "run"
       /\ fn' = [fn EXCEPT !.g = g, !.k = 1, !.step = HappyTables[g][1]]
  /\ tbl' = [tbl EXCEPT !["cert"] = [IdleTbl EXCEPT !.pc = "take", !.i = 1]]
  /\ UNCHANGED <<atvars, envvars, pvars, acall, wvars, wk, hist, ghvars, not_fn>>

\* table_process, top of the step loop: pf_sema_take(process_syn, 0)
HappyTake ==
  /\ tbl["cert"].pc = "take"
  /\ IF sem.process_syn = 1
     THEN /\ sem' = [sem EXCEPT !.process_syn = 0]
          /\ tbl' = [tbl EXCEPT !["cert"].pc = "call", !["cert"].j = 0, !["cert"].why = "none"]
     ELSE /\ tbl' = [tbl EXCEPT !["cert"].pc = "exit"]
          /\ UNCHANGED sem
  /\ UNCHANGED <<atvars, envvars, pvars, acall, trans_send_flag, wapi_conn_mode, recv_state_q,
                 wk, hist, ghvars, lvars>>

\* table_process after a success result: pf_process_cpl, the delay of
\* process_interval_tick (the other threads run until they block), the give
\* of process_syn, break; then the next step or return WAPI_OK
HappyStepDone ==
  /\ tbl["cert"].pc = "cpl"
  /\ fn.step.process_interval_tick # 0 => HappyQuiet
  /\ sem' = [sem EXCEPT !.process_syn = sema_give(@)]
  /\ IF fn.k < Len(HappyTables[fn.g])
     THEN /\ tbl' = [tbl EXCEPT !["cert"].pc = "take", !["cert"].i = @ + 1]
          /\ fn' = [fn EXCEPT !.k = @ + 1, !.step = HappyTables[fn.g][fn.k + 1]]
     ELSE /\ tbl' = [tbl EXCEPT !["cert"].pc = "ret"]
          /\ UNCHANGED fn
  /\ UNCHANGED <<atvars, envvars, pvars, acall, trans_send_flag, wapi_conn_mode, recv_state_q,
                 wk, hist, ghvars, not_fn>>

\* table_process at exit: the give of process_syn, return WAPI_ERR_OTHERS;
\* generic_process runs the table again, WAPI_PROCESS_RETRY_MAX times in all
HappyExit ==
  /\ tbl["cert"].pc = "exit"
  /\ sem' = [sem EXCEPT !.process_syn = sema_give(@)]
  /\ IF tbl["cert"].run + 1 < WAPI_PROCESS_RETRY_MAX
     THEN /\ tbl' = [tbl EXCEPT !["cert"] = [IdleTbl EXCEPT !.pc = "take", !.i = 1,
                                                           !.run = tbl["cert"].run + 1]]
          /\ fn' = [fn EXCEPT !.k = 1, !.step = HappyTables[fn.g][1]]
     ELSE /\ tbl' = [tbl EXCEPT !["cert"].pc = "fail"]
          /\ UNCHANGED fn
  /\ UNCHANGED <<atvars, envvars, pvars, acall, trans_send_flag, wapi_conn_mode, recv_state_q,
                 wk, hist, ghvars, not_fn>>

\* generic_wapi_thread after process_fn returned WAPI_ERR_OTHERS
HappyFail ==
  /\ tbl["cert"].pc = "fail" /\ fn.g # "none"
  /\ process_return(fn.g, "WAPI_ERR_OTHERS")
  /\ fn' = [fn EXCEPT !.g = "none"]
  /\ UNCHANGED not_fn

\* generic_wapi_thread after process_fn returned WAPI_OK
HappyReturn ==
  /\ tbl["cert"].pc = "ret" /\ fn.g # "none"
  /\ process_return(fn.g, "WAPI_OK")
  /\ fn' = [fn EXCEPT !.g = "none", !.succeeded = Append(@, fn.g)]
  /\ UNCHANGED not_fn

\* the module answers the command it has received, once, with the literal
\* the parse callback of the command searches for
HappyAnswer ==
  /\ mod_owed = MaxResp /\ fn.g # "none"
  /\ notify_isr_cb({step_pattern(fn.step)})
  /\ UNCHANGED lvars

\* time advances when every thread is blocked and the module owes nothing
HappyTick ==
  /\ mod_owed # MaxResp
  /\ \A g \in Groups : ~HookReady(g)
  /\ tbl["cert"].pc = "cpl" => fn.step.process_interval_tick # 0
  /\ StepTick

\* the timer service task
HappyTimer ==
  \/ StepTimerExpire
  \/ timeout_callback /\ UNCHANGED lvars

InitHappy ==
  /\ InitBase /\ acall = [t \in Callers |-> IdleCall]
  /\ rx = IdleRx /\ tx = IdleTx /\ up = IdleUp
  /\ track = "off"
  /\ \E auth \in {"cert", "pwd"} :
       fn = [op |-> "table_process", step |-> HappyTables["init"][1], timer_left |-> 0,
             wait_left |-> 0, sent |-> FALSE, frames |-> 0, after_timeout |-> FALSE,
             rejected |-> FALSE, app_sent |-> FALSE,
             boot |-> "init", auth |-> auth, g |-> "none", k |-> 0, succeeded |-> <<>>]

HappyWorker ==
  \/ HookStep /\ UNCHANGED lvars
  \/ HappyStart
  \/ HappyTake
  \/ StepFun
  \/ StepSendCmd
  \/ at_cmd_send_record("init") /\ UNCHANGED lvars
  \/ StepTimerStart("init")
  \/ StepWait
  \/ StepRecv
  \/ StepTimeout
  \/ HappyStepDone
  \/ HappyReturn
  \/ HappyExit
  \/ HappyFail

HappyParse ==
  \/ StepParseThread
  \/ at_parse_algo_get /\ UNCHANGED lvars
  \/ at_parse_algo_dispatch /\ UNCHANGED lvars
  \/ at_parse_algo_count /\ UNCHANGED lvars
  \/ at_parse_algo_release /\ UNCHANGED lvars

NextHappy ==
  \/ HappyInit
  \/ HappyAuth
  \/ HappyWorker
  \/ StepSendComplete
  \/ HappyAnswer
  \/ HappyParse
  \/ HappyTimer
  \/ HappyTick

\* the scheduling: a thread that is ready eventually runs, the transmission
\* completes, the module answers, time passes
SpecHappy ==
  /\ InitHappy /\ [][NextHappy]_vars
  /\ WF_vars(HappyInit) /\ WF_vars(HappyAuth)
  /\ WF_vars(HappyWorker) /\ WF_vars(HappyParse)
  /\ WF_vars(StepSendComplete) /\ WF_vars(HappyAnswer)
  /\ WF_vars(HappyTimer) /\ WF_vars(HappyTick)

\* the happy path completes: the init process, the auth process and the
\* connect process have succeeded, in that order, and trans_send_flag is
\* true
HappyPathDone == trans_send_flag /\ fn.succeeded = <<"init", fn.auth, "conn">>

HappyPathCompletes == <>HappyPathDone

IdleWalk == [op |-> "handle_function_code_parse", pc |-> "idle", current |-> 0, fun_code |-> 0,
             calls |-> <<>>, freed |-> {}, stale |-> FALSE]

\* what the walk reads from node h: the node's fields, or, from memory that
\* was freed, any value
WalkNode(h) ==
  IF h \in fn.freed
  THEN {[live |-> FALSE, fun_code |-> c, cb |-> b] : c \in FunCodes, b \in Callbacks}
  ELSE {rx.funcode.node[h]}

WalkLink(h) == IF h \in fn.freed THEN 0..MaxNodes ELSE {rx.funcode.next[h]}

WalkSubscribe ==
  /\ \E fun_code \in FunCodes : \E handle \in 1..MaxNodes :
       /\ ~rx.funcode.node[handle].live
       /\ rx' = subscribe_funcode(rx, fun_code, "cb", handle)
       /\ fn' = [fn EXCEPT !.freed = @ \ {handle}]
  /\ UNCHANGED <<devvars, tx, up>>

WalkUnsubscribe ==
  /\ \E handle \in 1..MaxNodes :
       /\ rx.funcode.node[handle].live
       /\ rx' = unsubscribe_funcode(rx, handle)
       /\ fn' = [fn EXCEPT !.freed = @ \cup {handle}]
  /\ UNCHANGED <<devvars, tx, up>>

\* the for statement's initialisation: current = head->next
WalkStart ==
  /\ fn.pc = "idle"
  /\ \E fun_code \in FrameCodes :
       fn' = [fn EXCEPT !.pc = IF rx.funcode.next[0] = 0 THEN "done" ELSE "body",
                        !.current = rx.funcode.next[0], !.fun_code = fun_code,
                        !.calls = <<>>, !.stale = FALSE]
  /\ UNCHANGED <<devvars, not_fn>>

\* the loop body on the node at current
WalkBody ==
  /\ fn.pc = "body"
  /\ \E node \in WalkNode(fn.current) :
       fn' = IF node.fun_code > fn.fun_code THEN [fn EXCEPT !.pc = "done"]
             ELSE [fn EXCEPT !.pc = "step",
                             !.calls = IF node.fun_code = fn.fun_code /\ node.cb # "NULL"
                                          /\ Len(@) < MaxNodes
                                       THEN Append(@, fn.current) ELSE @]
  /\ UNCHANGED <<devvars, not_fn>>

\* current = current->next, and the loop condition current != head
WalkStep ==
  /\ fn.pc = "step"
  /\ \E nxt \in WalkLink(fn.current) :
       fn' = [fn EXCEPT !.pc = IF nxt = 0 THEN "done" ELSE "body", !.current = nxt,
                        !.stale = (nxt = fn.current)]
  /\ UNCHANGED <<devvars, not_fn>>

WalkReturn ==
  /\ fn.pc = "done"
  /\ fn' = [fn EXCEPT !.pc = "idle", !.current = 0]
  /\ UNCHANGED <<devvars, not_fn>>

InitWalk ==
  /\ InitBase /\ acall = [t \in Callers |-> IdleCall] /\ track = "off"
  /\ rx = uart_proto_inst(MaxBufSize, "ALGO_FUNCODE")
  /\ tx = IdleTx /\ fn = IdleWalk /\ up = IdleUp

NextWalk ==
  \/ WalkSubscribe
  \/ WalkUnsubscribe
  \/ WalkStart
  \/ WalkBody
  \/ WalkStep
  \/ WalkReturn

SpecWalk == InitWalk /\ [][NextWalk]_vars

\* C39: while handle_function_code_parse is in its loop, the node at
\* current is a subscribed node of the list: the walk never stands on a
\* node that unsubscribe_funcode has unlinked and freed, and never steps
\* from a node to that same node.
C39_WalkOnLinkedNodes ==
  fn.pc \in {"body", "step"} =>
    /\ rx.funcode.node[fn.current].live
    /\ fn.current \notin fn.freed
    /\ ~fn.stale

\* ======================================================================
\*  SpecZero: SpecAT with at_trans_send handed a descriptor whose
\*  receive_count is 0 and whose first parse callback is set
\* ======================================================================
CbZeroCount == [receive_count |-> 0, pf_at_recv_parse |-> <<"check_connect", "NULL">>, arg |-> "NULL"]

SendTransZero ==
  ntxn < MaxTxn /\ acall["app"].pc = "idle" /\ at_trans_send("app", TRUE, CbZeroCount)

NextZero ==
  \/ SendCmd /\ UNCHANGED lvars
  \/ SendTransZero /\ UNCHANGED lvars
  \/ SendCmdRecord /\ UNCHANGED lvars
  \/ SendTransRecord /\ UNCHANGED lvars
  \/ SendTimerStart /\ UNCHANGED lvars
  \/ SendReturn /\ UNCHANGED lvars
  \/ ResetState /\ UNCHANGED lvars
  \/ at_send_complete_isr_cb /\ UNCHANGED lvars
  \/ ModuleAnswersAT /\ UNCHANGED lvars
  \/ parse_thread /\ UNCHANGED lvars
  \/ at_parse_algo_get /\ UNCHANGED lvars
  \/ at_parse_algo_dispatch /\ UNCHANGED lvars
  \/ at_parse_algo_count /\ UNCHANGED lvars
  \/ at_parse_algo_release /\ UNCHANGED lvars
  \/ TimerTask /\ UNCHANGED lvars

SpecZero == InitAT /\ [][NextZero]_vars

\* at_parse_algo holds a response for the pending-send record of a
\* transparent send whose descriptor has receive_count 0
ZeroCountResponse ==
  /\ ppc = "cb"
  /\ ploc.info.at_send_type = "SEND_TRANSPARENT"
  /\ ploc.info.callback.receive_count = 0

\* C40: at_trans_send sets remain_receive_count to 1 for a descriptor with
\* receive_count 0, and at_parse_algo hands the response to the callback of
\* slot 0 and goes on to the count-down that stops the timer and releases
\* the gate.
C40_ZeroCountExpectsOne ==
  [][/\ (acall["app"].pc = "rec" /\ acall["app"].api = "trans"
           /\ acall["app"].callback = CbZeroCount /\ send_info' # send_info) => remain' = 1
     /\ (ZeroCountResponse /\ ppc' # "cb") =>
           /\ parse_algo_index(ploc.info) = 0
           /\ ppc' = "post"]_vars


====
